---- MODULE Spec2Model ----
(***************************************************************************)
(* Model of the ingestion core of pvr.xtreamcodes:                         *)
(*   - ParseXMLTV (xtream_client.cpp): channel matcher and EPG assembler   *)
(*   - ForEachTopLevelObjectSpan (xtream_client.cpp) and                   *)
(*     ForEachObjectInArray (dispatcharr_client.cpp): the array scanners   *)
(*   - FetchLiveCategories, FetchLiveStreams (xtream_client.cpp): the      *)
(*     category and stream decoders                                        *)
(*   - the field extractors of xtream_client.cpp and                       *)
(*     dispatcharr_client.cpp                                              *)
(* Text is modelled as TLA+ strings; Ch(s, i) is the i-th character.       *)
(* C++ offsets are 0-based, string positions here are 1-based: the model   *)
(* keeps the 0-based offsets of the code and reads character At(s, k) for  *)
(* offset k.                                                               *)
(***************************************************************************)
EXTENDS Integers, Sequences, FiniteSets, TLC

VARIABLES
    \* ---- ParseXMLTV ----
    docKind,         \* what the XML loader makes of xmltvData
    streams,         \* the stream catalog passed in
    streamIdToName,  \* lookup map built from the catalog
    streamNameToId,  \* lookup map built from the catalog
    docChannels,     \* <channel> nodes visited so far, in document order
    chanNode,        \* the <channel> node of the current iteration
    mappedId,        \* join key computed in the current iteration
    epgMap,          \* join key -> ChannelEpg
    progNode,        \* the <programme> node of the current iteration
    nProg,           \* number of <programme> nodes visited
    programmeCount,  \* the code's counter of retained programmes
    channelEpgs,     \* output collection
    xmlRet,          \* return value of ParseXMLTV
    xpc,             \* position inside ParseXMLTV
    \* ---- array scanners / FetchLiveCategories ----
    impl,            \* which scanner runs: "xtream" or "dispatcharr"
    fetch,           \* what URL building and HttpGet give FetchLiveCategories
    json,            \* the text handed to the scanner
    i,               \* loop offset (0-based)
    inString, escape, depth, objStart, any,
    spans,           \* the spans handed to fn, in call order
    out,             \* FetchLiveCategories' output vector
    result,          \* FetchLiveCategories' FetchResult
    scanRet,         \* the scanner's return value
    spc,             \* position inside the scanner / its caller
    \* ---- field extractors ----
    fieldFn,         \* the extractor that is called
    fieldObj,        \* its argument obj
    fieldKey,        \* its argument key
    fieldOut,        \* its reference argument out (the caller's variable)
    fieldRet,        \* its return value
    fieldPc,         \* "call" before the call, "done" after it
    \* ---- HttpGet and its callers ----
    server,          \* what the server does: connection, status line, body
    readPos,         \* bytes of the server's body that file.Read has delivered
    httpBody,        \* HttpResult::body, filled by ReadAll
    xmltvData,       \* output of FetchXMLTVEpg
    hpc,             \* position inside HttpGet
    \* ---- FetchAllLiveStreams ----
    replies,         \* the nested fetches made so far and their outcomes, in call order
    categories,      \* output parameter
    allStreams,      \* output parameter streams
    cats,            \* local: the fetched categories
    all,             \* local: streams gathered by the per-category fallback
    catIndex,        \* number of categories the fallback loop has fetched
    allRes,          \* the FetchResult returned
    apc,             \* position inside FetchAllLiveStreams
    \* ---- dispatcharr Client ----
    m_accessToken,   \* the token held by the Client (byte values)
    outRules,        \* the caller's vector handed to FetchSeriesRules
    outRecordings,   \* the caller's vector handed to FetchRecordings
    wire,            \* requests sent so far: "auth" or "api", in order
    lastOp,          \* the operation that ran last, its return value, the
                     \* token and the vectors before it
    nOps             \* number of operations run

xmlVars == <<docKind, streams, streamIdToName, streamNameToId, docChannels,
             chanNode, mappedId, epgMap, progNode, nProg, programmeCount,
             channelEpgs, xmlRet, xpc>>
scanVars == <<impl, fetch, json, i, inString, escape, depth, objStart, any,
              spans, out, result, scanRet, spc>>
fieldVars == <<fieldFn, fieldObj, fieldKey, fieldOut, fieldRet, fieldPc>>
httpVars == <<server, readPos, httpBody, xmltvData, hpc>>
allVars == <<replies, categories, allStreams, cats, all, catIndex, allRes, apc>>
clientVars == <<m_accessToken, outRules, outRecordings, wire, lastOp, nOps>>
restVars == <<httpVars, allVars, clientVars>>
vars == <<xmlVars, scanVars, fieldVars, restVars>>

(***************************************************************************)
(* Text helpers                                                            *)
(***************************************************************************)
Ch(s, k) == SubSeq(s, k, k)

\* character at 0-based offset k
At(s, k) == SubSeq(s, k + 1, k + 1)

Digits == "0123456789"

IsDigit(c) == c \in {"0", "1", "2", "3", "4", "5", "6", "7", "8", "9"}

DigitVal(c) == (CHOOSE d \in 1..10 : Ch(Digits, d) = c) - 1

IsSpace(c) == c \in {" ", "\t", "\n", "\r", "\f"}

UpperChars == "ABCDEFGHIJKLMNOPQRSTUVWXYZ"

LowerChars == "abcdefghijklmnopqrstuvwxyz"

IsUpper(c) == \E k \in 1..26 : Ch(UpperChars, k) = c

ToLowerChar(c) ==
    IF IsUpper(c) THEN Ch(LowerChars, CHOOSE k \in 1..26 : Ch(UpperChars, k) = c)
    ELSE c

RECURSIVE ToLower(_)
ToLower(s) ==
    IF Len(s) = 0 THEN ""
    ELSE ToLowerChar(Ch(s, 1)) \o ToLower(SubSeq(s, 2, Len(s)))

RECURSIVE NatToString(_)
NatToString(n) ==
    IF n < 10 THEN Ch(Digits, n + 1)
    ELSE NatToString(n \div 10) \o Ch(Digits, (n % 10) + 1)

\* std::to_string(int)
IntToString(n) == IF n < 0 THEN "-" \o NatToString(-n) ELSE NatToString(n)

\* std::string::npos
NPos == -1

EmptyMap == [k \in {} |-> 0]

\* std::unordered_map::insert semantics: an existing key keeps its value
PutIfAbsent(m, k, v) == [x \in (DOMAIN m) \cup {k} |-> IF x \in DOMAIN m THEN m[x] ELSE v]

Put(m, k, v) == [x \in (DOMAIN m) \cup {k} |-> IF x = k THEN v ELSE m[x]]

(***************************************************************************)
(* libc conversions used by ParseXMLTV                                     *)
(***************************************************************************)
\* value of the digit run s[from..to) (0-based offsets); the identifiers and
\* timestamps of the model are short, so a long never overflows here
RECURSIVE DigitsValue(_, _, _)
DigitsValue(s, from, to) ==
    IF to <= from THEN 0
    ELSE 10 * DigitsValue(s, from, to - 1) + DigitVal(At(s, to - 1))

RECURSIVE SkipSpace(_, _)
SkipSpace(s, pos) ==
    IF pos < Len(s) /\ IsSpace(At(s, pos)) THEN SkipSpace(s, pos + 1) ELSE pos

\* first offset >= pos, below limit, that holds no digit
RECURSIVE SkipDigits(_, _, _)
SkipDigits(s, pos, limit) ==
    IF pos < limit /\ pos < Len(s) /\ IsDigit(At(s, pos))
    THEN SkipDigits(s, pos + 1, limit) ELSE pos

\* std::strtol(s, &end, 10): leading white space, an optional sign, digits.
\* end is the offset where the conversion stopped (0 when nothing converts).
Strtol(s) ==
    LET p0 == SkipSpace(s, 0)
        signed == p0 < Len(s) /\ At(s, p0) \in {"+", "-"}
        neg == signed /\ At(s, p0) = "-"
        d0 == IF signed THEN p0 + 1 ELSE p0
        d1 == SkipDigits(s, d0, Len(s))
    IN  IF d1 = d0 THEN [val |-> 0, end |-> 0]
        ELSE [val |-> IF neg THEN -DigitsValue(s, d0, d1) ELSE DigitsValue(s, d0, d1),
              end |-> d1]

\* one %<width>d conversion of sscanf at offset pos: white space is skipped
\* and does not count, a sign counts towards the width
ScanInt(s, pos, width) ==
    LET p0 == SkipSpace(s, pos)
        signed == p0 < Len(s) /\ At(s, p0) \in {"+", "-"}
        neg == signed /\ At(s, p0) = "-"
        d0 == IF signed THEN p0 + 1 ELSE p0
        d1 == SkipDigits(s, d0, p0 + width)
    IN  IF d1 = d0 THEN [ok |-> FALSE, val |-> 0, pos |-> pos]
        ELSE [ok |-> TRUE,
              val |-> IF neg THEN -DigitsValue(s, d0, d1) ELSE DigitsValue(s, d0, d1),
              pos |-> d1]

\* sscanf(attr, "%4d%2d%2d%2d%2d%2d", ...): the fields converted, in order;
\* the return value of sscanf is the length of the result
RECURSIVE ScanFields(_, _, _, _)
ScanFields(s, pos, widths, acc) ==
    IF widths = <<>> THEN acc
    ELSE LET r == ScanInt(s, pos, Head(widths))
         IN  IF r.ok THEN ScanFields(s, r.pos, Tail(widths), Append(acc, r.val))
             ELSE acc

TimeWidths == <<4, 2, 2, 2, 2, 2>>

\* days from 1970-01-01 to the civil date y-m-d (proleptic Gregorian)
DaysFromCivil(y, m, d) ==
    LET yy == IF m <= 2 THEN y - 1 ELSE y
        era == yy \div 400
        yoe == yy - era * 400
        mp == IF m > 2 THEN m - 3 ELSE m + 9
        doy == (153 * mp + 2) \div 5 + d - 1
        doe == yoe * 365 + yoe \div 4 - yoe \div 100 + doy
    IN  era * 146097 + doe - 719468

\* mktime(&tm) for a 64-bit time_t with the local time zone taken as UTC:
\* out-of-range fields are normalised, dates before 1970 give negative values
Mktime(tm) ==
    LET year == tm.tm_year + 1900 + (tm.tm_mon \div 12)
        mon == (tm.tm_mon % 12) + 1
        days == DaysFromCivil(year, mon, 1) + (tm.tm_mday - 1)
    IN  days * 86400 + tm.tm_hour * 3600 + tm.tm_min * 60 + tm.tm_sec

\* the start/stop block of ParseXMLTV: the time an attribute gives, or the
\* value the entry already has when the attribute is empty or sscanf converts
\* fewer than 6 fields
ParseTime(attr, unset) ==
    IF attr = "" THEN unset
    ELSE LET f == ScanFields(attr, 0, TimeWidths, <<>>)
         IN  IF Len(f) = 6
             THEN Mktime([tm_year |-> f[1] - 1900, tm_mon |-> f[2] - 1,
                          tm_mday |-> f[3], tm_hour |-> f[4],
                          tm_min |-> f[5], tm_sec |-> f[6]])
             ELSE unset

(***************************************************************************)
(* ParseXMLTV: inputs                                                      *)
(***************************************************************************)
MaxChannels == 2
MaxProgs == 2

SBbc == [id |-> 10, name |-> "BBC One"]
SItv == [id |-> 7, name |-> "ITV"]
SItvLower == [id |-> 12, name |-> "itv"]
SSky == [id |-> 0, name |-> "Sky"]

\* stream catalogs handed to ParseXMLTV
Catalogs ==
    { <<>>,
      <<SBbc, SItv>>,
      <<SItv, SItvLower, SSky, SBbc>>,
      <<SItvLower, SItv, SSky>> }

ChannelNode(id, displayName, icon) ==
    [id |-> id, displayName |-> displayName, icon |-> icon]

\* <channel> nodes a document may hold
ChannelPool ==
    { ChannelNode("10", "ITV", "a.png"),
      ChannelNode("010", "", ""),
      ChannelNode("+7", "none", ""),
      ChannelNode(" 12", "", "b.png"),
      ChannelNode("99", "Itv", ""),
      ChannelNode("bbc.uk", "bbc one", "c.png"),
      ChannelNode("sky.uk", "SKY", ""),
      ChannelNode("x1", "", ""),
      ChannelNode("", "BBC One", "") }

T12 == "20260121120000 +0000"
T13 == "20260121130000 +0000"
T14 == "20260121140000 +0000"
TOld == "19600101000000 +0000"
TEpoch == "19700101000000 +0000"
TShort == "2026012112000"

ProgrammeNode(channel, start, stop, title) ==
    [channel |-> channel, start |-> start, stop |-> stop, title |-> title]

\* <programme> nodes a document may hold
ProgrammePool ==
    { ProgrammeNode("10", T12, T13, "News"),
      ProgrammeNode("10", T12, T14, "Film"),
      ProgrammeNode("10", T13, T14, "Late"),
      ProgrammeNode("10", T13, T12, "Backwards"),
      ProgrammeNode("10", T12, T12, "Empty"),
      ProgrammeNode("10", "", T13, "NoStart"),
      ProgrammeNode("10", T12, "", "NoStop"),
      ProgrammeNode("10", TShort, T13, "Short"),
      ProgrammeNode("10", "soon", T13, "Text"),
      ProgrammeNode("010", T12, T13, "News"),
      ProgrammeNode("bbc.uk", T12, T13, "News"),
      ProgrammeNode("x1", T12, T13, "News"),
      ProgrammeNode("x1", TOld, T13, "Old"),
      ProgrammeNode("x1", TEpoch, T13, "Epoch"),
      ProgrammeNode("", T12, T13, "NoChannel"),
      ProgrammeNode("nosuch", T12, T13, "News") }

NoNode == [id |-> "", displayName |-> "", icon |-> ""]
NoProg == [channel |-> "", start |-> "", stop |-> "", title |-> ""]

(***************************************************************************)
(* ParseXMLTV                                                              *)
(***************************************************************************)
\* a default-constructed EpgEntry
NewEpgEntry == [channelId |-> "", startTime |-> 0, endTime |-> 0, title |-> ""]

\* a default-constructed ChannelEpg
NewChannelEpg == [id |-> "", displayName |-> "", iconPath |-> "", entries |-> EmptyMap]

\* indices of the catalog entries the lookup loop inserts
Inserted(strs) == {k \in 1..Len(strs) : strs[k].id > 0}

Last(S) == CHOOSE k \in S : \A j \in S : j <= k

\* streamIdToName after the lookup loop: operator[] keeps the last assignment
BuildIdToName(strs) ==
    [id \in {strs[k].id : k \in Inserted(strs)} |->
        strs[Last({k \in Inserted(strs) : strs[k].id = id})].name]

\* mutant of BuildNameToId: the lookup loop without its id > 0 filter
BuildNameToIdUnfiltered(strs) ==
    [nm \in {ToLower(strs[k].name) : k \in 1..Len(strs)} |->
        strs[Last({k \in 1..Len(strs) : ToLower(strs[k].name) = nm})].id]

\* streamNameToId after the lookup loop
BuildNameToId(strs) ==
    [nm \in {ToLower(strs[k].name) : k \in Inserted(strs)} |->
        strs[Last({k \in Inserted(strs) : ToLower(strs[k].name) = nm})].id]

\* the exact-id test of the channel loop
ExactIdMatch(idToName, xmltvId) ==
    LET r == Strtol(xmltvId)
    IN  /\ r.end = Len(xmltvId)
        /\ r.val > 0
        /\ r.val \in DOMAIN idToName

\* the name lookup of the channel loop
NameMatch(nameToId, displayName) ==
    displayName # "" /\ ToLower(displayName) \in DOMAIN nameToId

\* mutant of JoinKey: the name rule tried before the id rule
JoinKeyNameFirst(idToName, nameToId, xmltvId, displayName) ==
    IF NameMatch(nameToId, displayName)
    THEN IntToString(nameToId[ToLower(displayName)])
    ELSE IF ExactIdMatch(idToName, xmltvId) THEN IntToString(Strtol(xmltvId).val)
         ELSE xmltvId

\* mutant of JoinKey: a matched id kept as written instead of re-rendered
JoinKeyVerbatim(idToName, nameToId, xmltvId, displayName) ==
    IF ExactIdMatch(idToName, xmltvId) THEN xmltvId
    ELSE IF NameMatch(nameToId, displayName)
         THEN IntToString(nameToId[ToLower(displayName)])
         ELSE xmltvId

\* mappedId at the end of a channel iteration
JoinKey(idToName, nameToId, xmltvId, displayName) ==
    IF ExactIdMatch(idToName, xmltvId) THEN IntToString(Strtol(xmltvId).val)
    ELSE IF NameMatch(nameToId, displayName)
         THEN IntToString(nameToId[ToLower(displayName)])
         ELSE xmltvId

\* the entry a programme iteration builds before the validity test
BuildEntry(p) ==
    [NewEpgEntry EXCEPT !.channelId = p.channel,
                        !.startTime = ParseTime(p.start, NewEpgEntry.startTime),
                        !.endTime = ParseTime(p.stop, NewEpgEntry.endTime),
                        !.title = p.title]

\* BuildEntry tabulated over the programme nodes of the model
EntryOf == [p \in ProgrammePool |-> BuildEntry(p)]

\* the "Skip entries with invalid times" test
SkipEntry(e) == e.startTime = 0 \/ e.endTime = 0 \/ e.endTime <= e.startTime

\* xmltvData empty, not parseable, or without a <tv> root
XmlReject ==
    /\ xpc = "start"
    /\ docKind # "tv"
    /\ channelEpgs' = {}
    /\ xmlRet' = FALSE
    /\ xpc' = "done"
    /\ UNCHANGED <<docKind, streams, streamIdToName, streamNameToId, docChannels,
                   chanNode, mappedId, epgMap, progNode, nProg, programmeCount>>
    /\ UNCHANGED <<scanVars, fieldVars, restVars>>

\* channelEpgs.clear(), the XML load and the lookup maps
XmlBuildLookup ==
    /\ xpc = "start"
    /\ docKind = "tv"
    /\ channelEpgs' = {}
    /\ streamIdToName' = BuildIdToName(streams)
    /\ streamNameToId' = BuildNameToId(streams)
    /\ xpc' = "channels"
    /\ UNCHANGED <<docKind, streams, docChannels, chanNode, mappedId, epgMap,
                   progNode, nProg, programmeCount, xmlRet>>
    /\ UNCHANGED <<scanVars, fieldVars, restVars>>

\* one iteration of the first pass, on <channel> node c
XmlChannel(c) ==
    /\ xpc = "channels"
    /\ Len(docChannels) < MaxChannels
    /\ docChannels' = Append(docChannels, c)
    /\ chanNode' = c
    /\ IF c.id = ""
       THEN UNCHANGED <<mappedId, epgMap>>
       ELSE LET key == JoinKey(streamIdToName, streamNameToId, c.id, c.displayName)
                epg == [NewChannelEpg EXCEPT !.id = key,
                                             !.displayName = c.displayName,
                                             !.iconPath = c.icon]
            IN  /\ mappedId' = key
                /\ epgMap' = Put(epgMap, key, epg)
    /\ UNCHANGED <<docKind, streams, streamIdToName, streamNameToId, progNode,
                   nProg, programmeCount, channelEpgs, xmlRet, xpc>>
    /\ UNCHANGED <<scanVars, fieldVars, restVars>>

\* the first pass has visited every <channel> node
XmlEndChannels ==
    /\ xpc = "channels"
    /\ xpc' = "programmes"
    /\ UNCHANGED <<docKind, streams, streamIdToName, streamNameToId, docChannels,
                   chanNode, mappedId, epgMap, progNode, nProg, programmeCount,
                   channelEpgs, xmlRet>>
    /\ UNCHANGED <<scanVars, fieldVars, restVars>>

\* one iteration of the second pass, on <programme> node p
XmlProgramme(p) ==
    /\ xpc = "programmes"
    /\ nProg < MaxProgs
    /\ nProg' = nProg + 1
    /\ progNode' = p
    /\ LET e == EntryOf[p]
       IN  IF p.channel = "" \/ p.channel \notin DOMAIN epgMap \/ SkipEntry(e)
           THEN UNCHANGED <<epgMap, programmeCount>>
           ELSE /\ epgMap' = [epgMap EXCEPT ![p.channel].entries =
                                  Put(epgMap[p.channel].entries, e.startTime, e)]
                /\ programmeCount' = programmeCount + 1
    /\ UNCHANGED <<docKind, streams, streamIdToName, streamNameToId, docChannels,
                   chanNode, mappedId, channelEpgs, xmlRet, xpc>>
    /\ UNCHANGED <<scanVars, fieldVars, restVars>>

\* the output loop without the test of entries.empty()
ReturnedAll(map) == {map[k] : k \in DOMAIN map}

\* the ChannelEpg values the output loop pushes: those with entries
Returned(map) == {map[k] : k \in {x \in DOMAIN map : DOMAIN map[x].entries # {}}}

\* the map is copied to the output vector, channels without entries left out
XmlFinish ==
    /\ xpc = "programmes"
    /\ channelEpgs' = Returned(epgMap)
    /\ xmlRet' = (channelEpgs' # {})
    /\ xpc' = "done"
    /\ UNCHANGED <<docKind, streams, streamIdToName, streamNameToId, docChannels,
                   chanNode, mappedId, epgMap, progNode, nProg, programmeCount>>
    /\ UNCHANGED <<scanVars, fieldVars, restVars>>

NoFetch == [url |-> FALSE, ok |-> FALSE, protocol |-> ""]

ScanIdle ==
    /\ impl = "none" /\ fetch = NoFetch /\ json = "" /\ i = 0
    /\ inString = FALSE /\ escape = FALSE /\ depth = 0 /\ objStart = NPos
    /\ any = FALSE /\ spans = <<>> /\ out = <<>>
    /\ result = [ok |-> FALSE, details |-> ""]
    /\ scanRet = FALSE /\ spc = "idle"

FieldIdle ==
    /\ fieldFn = "none" /\ fieldObj = "" /\ fieldKey = ""
    /\ fieldOut = 0 /\ fieldRet = FALSE /\ fieldPc = "idle"

NoServer == [open |-> FALSE, protocol |-> "", body |-> ""]

HttpIdle ==
    /\ server = NoServer /\ readPos = 0 /\ httpBody = "" /\ xmltvData = ""
    /\ hpc = "idle"

AllIdle ==
    /\ replies = <<>> /\ categories = <<>> /\ allStreams = <<>> /\ cats = <<>>
    /\ all = <<>> /\ catIndex = 0 /\ allRes = [ok |-> FALSE, details |-> ""]
    /\ apc = "idle"

NoOp ==
    [op |-> "none", ret |-> FALSE, tokenBefore |-> <<>>, rulesBefore |-> <<>>,
     recordingsBefore |-> <<>>, wireBefore |-> <<>>]

ClientIdle ==
    /\ m_accessToken = <<>> /\ outRules = <<>> /\ outRecordings = <<>>
    /\ wire = <<>> /\ lastOp = NoOp /\ nOps = 0

InitXmltv ==
    /\ docKind \in {"empty", "malformed", "no_tv", "tv"}
    /\ streams \in Catalogs
    /\ streamIdToName = EmptyMap
    /\ streamNameToId = EmptyMap
    /\ docChannels = <<>>
    /\ chanNode = NoNode
    /\ mappedId = ""
    /\ epgMap = EmptyMap
    /\ progNode = NoProg
    /\ nProg = 0
    /\ programmeCount = 0
    /\ channelEpgs = {}
    /\ xmlRet = FALSE
    /\ xpc = "start"
    /\ ScanIdle
    /\ FieldIdle
    /\ HttpIdle /\ AllIdle /\ ClientIdle

NextXmltv ==
    \/ XmlReject
    \/ XmlBuildLookup
    \/ \E c \in ChannelPool : XmlChannel(c)
    \/ XmlEndChannels
    \/ \E p \in ProgrammePool : XmlProgramme(p)
    \/ XmlFinish

SpecXmltv == InitXmltv /\ [][NextXmltv]_vars

(***************************************************************************)
(* Array scanners                                                          *)
(***************************************************************************)
\* the scanner's locals as a record
Locals ==
    [inString |-> inString, escape |-> escape, depth |-> depth,
     objStart |-> objStart, any |-> any]

\* what one loop iteration leaves: the locals, the span handed to fn (or <<>>)
\* and whether the loop is left with break
Step(st, emit, stop) ==
    [inString |-> st.inString, escape |-> st.escape, depth |-> st.depth,
     objStart |-> st.objStart, any |-> st.any, emit |-> emit, stop |-> stop]

\* mutant of XtreamScanChar: a backslash inside a string is not remembered
XtreamScanCharNoEscape(c, k, st) ==
    IF st.inString
    THEN IF c = "\"" THEN Step([st EXCEPT !.inString = FALSE], <<>>, FALSE)
         ELSE Step(st, <<>>, FALSE)
    ELSE IF c = "\"" THEN Step([st EXCEPT !.inString = TRUE], <<>>, FALSE)
    ELSE IF c = "{"
         THEN Step([st EXCEPT !.objStart = IF st.depth = 0 THEN k ELSE @,
                              !.depth = @ + 1], <<>>, FALSE)
    ELSE IF c = "}"
         THEN IF st.depth - 1 = 0 /\ st.objStart # NPos
              THEN Step([st EXCEPT !.depth = @ - 1, !.any = TRUE, !.objStart = NPos],
                        <<st.objStart, k + 1>>, FALSE)
              ELSE Step([st EXCEPT !.depth = @ - 1], <<>>, FALSE)
    ELSE Step(st, <<>>, FALSE)

\* mutant of XtreamScanChar: every '{' starts a span and every '}' ends one
XtreamScanCharNoDepth(c, k, st) ==
    IF st.inString
    THEN IF st.escape THEN Step([st EXCEPT !.escape = FALSE], <<>>, FALSE)
         ELSE IF c = "\\" THEN Step([st EXCEPT !.escape = TRUE], <<>>, FALSE)
         ELSE IF c = "\"" THEN Step([st EXCEPT !.inString = FALSE], <<>>, FALSE)
         ELSE Step(st, <<>>, FALSE)
    ELSE IF c = "\"" THEN Step([st EXCEPT !.inString = TRUE], <<>>, FALSE)
    ELSE IF c = "{"
         THEN Step([st EXCEPT !.objStart = k, !.depth = @ + 1], <<>>, FALSE)
    ELSE IF c = "}"
         THEN IF st.objStart # NPos
              THEN Step([st EXCEPT !.depth = @ - 1, !.any = TRUE, !.objStart = NPos],
                        <<st.objStart, k + 1>>, FALSE)
              ELSE Step([st EXCEPT !.depth = @ - 1], <<>>, FALSE)
    ELSE Step(st, <<>>, FALSE)

\* the loop body of ForEachTopLevelObjectSpan on character c at offset k
XtreamScanChar(c, k, st) ==
    IF st.inString
    THEN IF st.escape THEN Step([st EXCEPT !.escape = FALSE], <<>>, FALSE)
         ELSE IF c = "\\" THEN Step([st EXCEPT !.escape = TRUE], <<>>, FALSE)
         ELSE IF c = "\"" THEN Step([st EXCEPT !.inString = FALSE], <<>>, FALSE)
         ELSE Step(st, <<>>, FALSE)
    ELSE IF c = "\"" THEN Step([st EXCEPT !.inString = TRUE], <<>>, FALSE)
    ELSE IF c = "{"
         THEN Step([st EXCEPT !.objStart = IF st.depth = 0 THEN k ELSE @,
                              !.depth = @ + 1], <<>>, FALSE)
    ELSE IF c = "}"
         THEN IF st.depth - 1 = 0 /\ st.objStart # NPos
              THEN Step([st EXCEPT !.depth = @ - 1, !.any = TRUE, !.objStart = NPos],
                        <<st.objStart, k + 1>>, FALSE)
              ELSE Step([st EXCEPT !.depth = @ - 1], <<>>, FALSE)
    ELSE Step(st, <<>>, FALSE)

\* the loop body of ForEachObjectInArray on character c at offset k
DispatcharrScanChar(c, k, st) ==
    IF st.inString
    THEN IF st.escape THEN Step([st EXCEPT !.escape = FALSE], <<>>, FALSE)
         ELSE IF c = "\\" THEN Step([st EXCEPT !.escape = TRUE], <<>>, FALSE)
         ELSE IF c = "\"" THEN Step([st EXCEPT !.inString = FALSE], <<>>, FALSE)
         ELSE Step(st, <<>>, FALSE)
    ELSE IF c = "\"" THEN Step([st EXCEPT !.inString = TRUE], <<>>, FALSE)
    ELSE IF c = "{"
         THEN Step([st EXCEPT !.objStart = IF st.depth = 0 THEN k ELSE @,
                              !.depth = @ + 1], <<>>, FALSE)
    ELSE IF c = "}"
         THEN IF st.depth - 1 = 0 /\ st.objStart # NPos
              THEN Step([st EXCEPT !.depth = @ - 1, !.objStart = NPos],
                        <<st.objStart, k + 1>>, FALSE)
              ELSE Step([st EXCEPT !.depth = @ - 1], <<>>, FALSE)
    ELSE IF c = "]" /\ st.depth = 0 THEN Step(st, <<>>, TRUE)
    ELSE Step(st, <<>>, FALSE)

(***************************************************************************)
(* Field extractor (xtream_client.cpp)                                     *)
(* Decoded strings are sequences of byte values.                           *)
(***************************************************************************)
\* the ASCII characters 32..95 and 97..126, in code order
AsciiLow == " !\"#$%&'()*+,-./0123456789:;<=>?@ABCDEFGHIJKLMNOPQRSTUVWXYZ[\\]^_"

AsciiHigh == "abcdefghijklmnopqrstuvwxyz{|}~"

\* the byte value of an ASCII character
Ord(c) ==
    IF c = "\t" THEN 9
    ELSE IF c = "\n" THEN 10
    ELSE IF c = "\f" THEN 12
    ELSE IF c = "\r" THEN 13
    ELSE IF \E k \in 1..Len(AsciiLow) : Ch(AsciiLow, k) = c
         THEN 31 + (CHOOSE k \in 1..Len(AsciiLow) : Ch(AsciiLow, k) = c)
         ELSE 96 + (CHOOSE k \in 1..Len(AsciiHigh) : Ch(AsciiHigh, k) = c)

\* std::string_view::find(needle, from): the first offset, or NPos
RECURSIVE Find(_, _, _)
Find(s, needle, from) ==
    IF from + Len(needle) > Len(s) THEN NPos
    ELSE IF SubSeq(s, from + 1, from + Len(needle)) = needle THEN from
    ELSE Find(s, needle, from + 1)

FindKeyPos(obj, key) == Find(obj, "\"" \o key \o "\"", 0)

\* ParseIntAt without the branch for a value in double quotes
ParseIntAtBareOnly(obj, pos) ==
    LET p0 == SkipSpace(obj, pos)
    IN  IF p0 >= Len(obj) THEN [ok |-> FALSE, val |-> 0]
        ELSE LET neg == At(obj, p0) = "-"
                 d0 == IF neg THEN p0 + 1 ELSE p0
                 d1 == SkipDigits(obj, d0, Len(obj))
             IN  IF d1 = d0 THEN [ok |-> FALSE, val |-> 0]
                 ELSE [ok |-> TRUE,
                       val |-> IF neg THEN -DigitsValue(obj, d0, d1)
                               ELSE DigitsValue(obj, d0, d1)]

\* ParseIntAt: both branches (quoted and bare) read an optional '-' and a
\* digit run; the values of the model fit an int
ParseIntAt(obj, pos) ==
    LET p0 == SkipSpace(obj, pos)
    IN  IF p0 >= Len(obj) THEN [ok |-> FALSE, val |-> 0]
        ELSE LET p1 == IF At(obj, p0) = "\"" THEN p0 + 1 ELSE p0
                 neg == p1 < Len(obj) /\ At(obj, p1) = "-"
                 d0 == IF neg THEN p1 + 1 ELSE p1
                 d1 == SkipDigits(obj, d0, Len(obj))
             IN  IF d1 = d0 THEN [ok |-> FALSE, val |-> 0]
                 ELSE [ok |-> TRUE,
                       val |-> IF neg THEN -DigitsValue(obj, d0, d1)
                               ELSE DigitsValue(obj, d0, d1)]

ExtractIntField(obj, key) ==
    LET kp == FindKeyPos(obj, key)
        cp == Find(obj, ":", kp)
    IN  IF kp = NPos \/ cp = NPos THEN [ok |-> FALSE, val |-> 0]
        ELSE ParseIntAt(obj, cp + 1)

HexDigits == "0123456789abcdef"

HexDigitsUpper == "0123456789ABCDEF"

\* hexVal: the value of a hex digit, -1 for any other character
HexVal(c) ==
    IF \E k \in 1..16 : Ch(HexDigits, k) = c
    THEN (CHOOSE k \in 1..16 : Ch(HexDigits, k) = c) - 1
    ELSE IF \E k \in 1..16 : Ch(HexDigitsUpper, k) = c
         THEN (CHOOSE k \in 1..16 : Ch(HexDigitsUpper, k) = c) - 1
         ELSE -1

\* appendUtf8: the bytes appended for code point cp
Utf8(cp) ==
    IF cp <= 127 THEN <<cp>>
    ELSE IF cp <= 2047
         THEN <<192 + ((cp \div 64) % 32), 128 + (cp % 64)>>
    ELSE IF cp <= 65535
         THEN <<224 + ((cp \div 4096) % 16), 128 + ((cp \div 64) % 64), 128 + (cp % 64)>>
    ELSE <<240 + ((cp \div 262144) % 8), 128 + ((cp \div 4096) % 64),
           128 + ((cp \div 64) % 64), 128 + (cp % 64)>>

\* four hex digits at offsets pos..pos+3 as a code unit, -1 if one is no digit
Hex4(obj, pos) ==
    LET h1 == HexVal(At(obj, pos))
        h2 == HexVal(At(obj, pos + 1))
        h3 == HexVal(At(obj, pos + 2))
        h4 == HexVal(At(obj, pos + 3))
    IN  IF h1 >= 0 /\ h2 >= 0 /\ h3 >= 0 /\ h4 >= 0
        THEN h1 * 4096 + h2 * 256 + h3 * 16 + h4
        ELSE -1

\* case 'u' without the surrogate-pair branch
DecodeUNoPairing(obj, pos) ==
    IF pos + 4 < Len(obj) /\ Hex4(obj, pos + 1) >= 0
    THEN LET cu == Hex4(obj, pos + 1)
         IN  IF cu >= 55296 /\ cu <= 57343
             THEN [bytes |-> Utf8(65533), pos |-> pos + 4]
             ELSE [bytes |-> Utf8(cu), pos |-> pos + 4]
    ELSE [bytes |-> <<Ord("u")>>, pos |-> pos]

\* case 'u' of the escape switch, with pos at the 'u': the bytes appended and
\* the offset of the last character consumed
DecodeU(obj, pos) ==
    IF pos + 4 < Len(obj) /\ Hex4(obj, pos + 1) >= 0
    THEN LET cu == Hex4(obj, pos + 1)
             p4 == pos + 4
             lo == IF p4 + 2 + 4 < Len(obj) /\ At(obj, p4 + 1) = "\\" /\ At(obj, p4 + 2) = "u"
                      /\ Hex4(obj, p4 + 3) >= 0
                   THEN Hex4(obj, p4 + 3) ELSE 0
             paired == /\ cu >= 55296 /\ cu <= 56319
                       /\ p4 + 2 + 4 < Len(obj) /\ At(obj, p4 + 1) = "\\" /\ At(obj, p4 + 2) = "u"
                       /\ lo >= 56320 /\ lo <= 57343
         IN  IF paired
             THEN [bytes |-> Utf8(65536 + ((cu - 55296) * 1024 + (lo - 56320))), pos |-> p4 + 6]
             ELSE IF cu >= 55296 /\ cu <= 57343
                  THEN [bytes |-> Utf8(65533), pos |-> p4]
                  ELSE [bytes |-> Utf8(cu), pos |-> p4]
    ELSE [bytes |-> <<Ord("u")>>, pos |-> pos]

\* the escape switch on character c at offset pos
DecodeEscape(obj, pos) ==
    LET c == At(obj, pos)
    IN  IF c \in {"\"", "\\", "/"} THEN [bytes |-> <<Ord(c)>>, pos |-> pos]
        ELSE IF c = "b" THEN [bytes |-> <<8>>, pos |-> pos]
        ELSE IF c = "f" THEN [bytes |-> <<12>>, pos |-> pos]
        ELSE IF c = "n" THEN [bytes |-> <<10>>, pos |-> pos]
        ELSE IF c = "r" THEN [bytes |-> <<13>>, pos |-> pos]
        ELSE IF c = "t" THEN [bytes |-> <<9>>, pos |-> pos]
        ELSE IF c = "u" THEN DecodeU(obj, pos)
        ELSE [bytes |-> <<Ord(c)>>, pos |-> pos]

\* the decoding loop of ExtractStringField from offset pos on
RECURSIVE DecodeLoop(_, _, _, _)
DecodeLoop(obj, pos, acc, escape2) ==
    IF pos >= Len(obj) THEN [ok |-> FALSE, val |-> <<>>]
    ELSE IF escape2
         THEN LET r == DecodeEscape(obj, pos)
              IN  DecodeLoop(obj, r.pos + 1, acc \o r.bytes, FALSE)
    ELSE IF At(obj, pos) = "\\" THEN DecodeLoop(obj, pos + 1, acc, TRUE)
    ELSE IF At(obj, pos) = "\"" THEN [ok |-> TRUE, val |-> acc]
    ELSE DecodeLoop(obj, pos + 1, Append(acc, Ord(At(obj, pos))), FALSE)

ExtractStringField(obj, key) ==
    LET kp == FindKeyPos(obj, key)
        cp == Find(obj, ":", kp)
        p0 == SkipSpace(obj, cp + 1)
    IN  IF kp = NPos \/ cp = NPos THEN [ok |-> FALSE, val |-> <<>>]
        ELSE IF p0 >= Len(obj) \/ At(obj, p0) # "\"" THEN [ok |-> FALSE, val |-> <<>>]
        ELSE DecodeLoop(obj, p0 + 1, <<>>, FALSE)

(***************************************************************************)
(* Field extractors (dispatcharr_client.cpp)                               *)
(* FindKeyPos, ParseIntAt and ExtractIntField have the text of their       *)
(* xtream_client.cpp namesakes.                                            *)
(***************************************************************************)
DispatcharrFindKeyPos(obj, key) == Find(obj, "\"" \o key \o "\"", 0)

DispatcharrParseIntAt(obj, pos) ==
    LET p0 == SkipSpace(obj, pos)
    IN  IF p0 >= Len(obj) THEN [ok |-> FALSE, val |-> 0]
        ELSE LET p1 == IF At(obj, p0) = "\"" THEN p0 + 1 ELSE p0
                 neg == p1 < Len(obj) /\ At(obj, p1) = "-"
                 d0 == IF neg THEN p1 + 1 ELSE p1
                 d1 == SkipDigits(obj, d0, Len(obj))
             IN  IF d1 = d0 THEN [ok |-> FALSE, val |-> 0]
                 ELSE [ok |-> TRUE,
                       val |-> IF neg THEN -DigitsValue(obj, d0, d1)
                               ELSE DigitsValue(obj, d0, d1)]

DispatcharrExtractIntField(obj, key) ==
    LET kp == DispatcharrFindKeyPos(obj, key)
        cp == Find(obj, ":", kp)
    IN  IF kp = NPos \/ cp = NPos THEN [ok |-> FALSE, val |-> 0]
        ELSE DispatcharrParseIntAt(obj, cp + 1)

\* std::string_view::substr(pos, n), for pos <= size
Substr(s, pos, n) ==
    SubSeq(s, pos + 1, IF pos + n <= Len(s) THEN pos + n ELSE Len(s))

ExtractBoolField(obj, key) ==
    LET kp == DispatcharrFindKeyPos(obj, key)
        cp == Find(obj, ":", kp)
        p0 == SkipSpace(obj, cp + 1)
    IN  IF kp = NPos \/ cp = NPos THEN [ok |-> FALSE, val |-> FALSE]
        ELSE IF p0 >= Len(obj) THEN [ok |-> FALSE, val |-> FALSE]
        ELSE IF Substr(obj, p0, 4) = "true" THEN [ok |-> TRUE, val |-> TRUE]
        ELSE IF Substr(obj, p0, 5) = "false" THEN [ok |-> TRUE, val |-> FALSE]
        ELSE IF At(obj, p0) = "1" THEN [ok |-> TRUE, val |-> TRUE]
        ELSE IF At(obj, p0) = "0" THEN [ok |-> TRUE, val |-> FALSE]
        ELSE [ok |-> FALSE, val |-> FALSE]

\* the escape switch of the dispatcharr ExtractStringField
DispatcharrDecodeEscape(c) ==
    IF c = "\"" THEN <<Ord("\"")>>
    ELSE IF c = "\\" THEN <<Ord("\\")>>
    ELSE IF c = "n" THEN <<10>>
    ELSE IF c = "r" THEN <<13>>
    ELSE IF c = "t" THEN <<9>>
    ELSE <<Ord(c)>>

RECURSIVE DispatcharrDecodeLoop(_, _, _, _)
DispatcharrDecodeLoop(obj, pos, acc, escape2) ==
    IF pos >= Len(obj) THEN [ok |-> FALSE, val |-> <<>>]
    ELSE IF escape2
         THEN DispatcharrDecodeLoop(obj, pos + 1,
                                    acc \o DispatcharrDecodeEscape(At(obj, pos)), FALSE)
    ELSE IF At(obj, pos) = "\\" THEN DispatcharrDecodeLoop(obj, pos + 1, acc, TRUE)
    ELSE IF At(obj, pos) = "\"" THEN [ok |-> TRUE, val |-> acc]
    ELSE DispatcharrDecodeLoop(obj, pos + 1, Append(acc, Ord(At(obj, pos))), FALSE)

DispatcharrExtractStringField(obj, key) ==
    LET kp == DispatcharrFindKeyPos(obj, key)
        cp == Find(obj, ":", kp)
        p0 == SkipSpace(obj, cp + 1)
    IN  IF kp = NPos \/ cp = NPos THEN [ok |-> FALSE, val |-> <<>>]
        ELSE IF p0 >= Len(obj) \/ At(obj, p0) # "\"" THEN [ok |-> FALSE, val |-> <<>>]
        ELSE DispatcharrDecodeLoop(obj, p0 + 1, <<>>, FALSE)

\* the loop of ExtractRawJsonField: counts openChar and closeChar only
RECURSIVE RawJsonLoop(_, _, _, _, _, _)
RawJsonLoop(obj, pos, dep, openChar, closeChar, start) ==
    IF pos >= Len(obj) THEN [ok |-> FALSE, val |-> ""]
    ELSE IF At(obj, pos) = openChar
         THEN RawJsonLoop(obj, pos + 1, dep + 1, openChar, closeChar, start)
    ELSE IF At(obj, pos) = closeChar
         THEN IF dep - 1 = 0
              THEN [ok |-> TRUE, val |-> SubSeq(obj, start + 1, pos + 1)]
              ELSE RawJsonLoop(obj, pos + 1, dep - 1, openChar, closeChar, start)
    ELSE RawJsonLoop(obj, pos + 1, dep, openChar, closeChar, start)

ExtractRawJsonField(obj, key) ==
    LET kp == DispatcharrFindKeyPos(obj, key)
        cp == Find(obj, ":", kp)
        p0 == SkipSpace(obj, cp + 1)
    IN  IF kp = NPos \/ cp = NPos THEN [ok |-> FALSE, val |-> ""]
        ELSE IF p0 >= Len(obj) THEN [ok |-> FALSE, val |-> ""]
        ELSE IF At(obj, p0) \notin {"[", "{"} THEN [ok |-> FALSE, val |-> ""]
        ELSE RawJsonLoop(obj, p0, 0, At(obj, p0),
                         IF At(obj, p0) = "[" THEN "]" ELSE "}", p0)

(***************************************************************************)
(* Scanner inputs                                                          *)
(***************************************************************************)
MaxElems == 2
MaxRawLen == 3

\* well-formed JSON objects used as array elements
ObjectPool ==
    { "{}",
      "{\"category_id\":4,\"category_name\":\"News\"}",
      "{\"category_id\":\"5\"}",
      "{\"category_name\":\"x{y}z\"}",
      "{\"a\":\"q\\\"}{\"}",
      "{\"a\":\"b\\\\\"}",
      "{\"a\":{\"b\":{}}}",
      "{\"a\":[{\"b\":1}]}" }

RECURSIVE SeqsUpTo(_, _)
SeqsUpTo(S, n) ==
    IF n = 0 THEN {<<>>}
    ELSE LET shorter == SeqsUpTo(S, n - 1)
         IN  shorter \cup {Append(q, x) : q \in shorter, x \in S}

RECURSIVE Join(_)
Join(elems) ==
    IF Len(elems) = 0 THEN ""
    ELSE IF Len(elems) = 1 THEN elems[1]
    ELSE elems[1] \o "," \o Join(Tail(elems))

LeadPool == {"", " "}

\* what follows the closing ']' of the array
TrailPool == {"", " ", "{\"category_id\":9}", ",{}]"}

ArrayInputs ==
    {lead \o "[" \o Join(elems) \o "]" \o trail :
        lead \in LeadPool, elems \in SeqsUpTo(ObjectPool, MaxElems), trail \in TrailPool}

RawAlphabet == {"[", "]", "{", "}", "\"", "\\", " "}

RECURSIVE StringsUpTo(_, _)
StringsUpTo(A, n) ==
    IF n = 0 THEN {""}
    ELSE LET shorter == StringsUpTo(A, n - 1)
         IN  shorter \cup {q \o c : q \in shorter, c \in A}

RawInputs == StringsUpTo(RawAlphabet, MaxRawLen)

\* bodies that are no array, or an array cut short
OtherInputs ==
    { "{\"category_id\":4}", " {\"user_info\":{\"auth\":0}}", "[ ]", " [] ",
      "[{\"category_id\":4}", "[{\"category_id\":4},{\"a\":\"]" }

JsonInputs == ArrayInputs \cup RawInputs \cup OtherInputs

OkFetch == [url |-> TRUE, ok |-> TRUE, protocol |-> "HTTP/1.1 200 OK"]

\* no URL could be built, the connection failed, the status line is not 2xx
FailedFetches ==
    { [url |-> FALSE, ok |-> FALSE, protocol |-> ""],
      [url |-> TRUE, ok |-> FALSE, protocol |-> ""],
      [url |-> TRUE, ok |-> FALSE, protocol |-> "HTTP/1.1 404 Not Found"] }

(***************************************************************************)
(* FetchLiveCategories and the scanners as state machines                  *)
(***************************************************************************)
\* a default-constructed LiveCategory
NewLiveCategory == [id |-> 0, name |-> <<>>]

NotArrayMsg == "Categories response was not a JSON array"

\* the lambda FetchLiveCategories hands to the scanner: the records pushed
\* for the object text obj
DecodeCategory(obj) ==
    LET id == ExtractIntField(obj, "category_id")
        name == ExtractStringField(obj, "category_name")
    IN  IF ~id.ok THEN <<>>
        ELSE <<[id |-> id.val,
                name |-> IF name.ok THEN name.val ELSE NewLiveCategory.name]>>

\* a default-constructed LiveStream
NewLiveStream == [id |-> 0, categoryId |-> 0, number |-> 0, name |-> <<>>, icon |-> <<>>]

\* the lambda FetchLiveStreams hands to the scanner: the records pushed for
\* the object text obj
DecodeStream(obj) ==
    LET id == ExtractIntField(obj, "stream_id")
        cat == ExtractIntField(obj, "category_id")
        num == ExtractIntField(obj, "num")
        name == ExtractStringField(obj, "name")
        icon == ExtractStringField(obj, "stream_icon")
    IN  IF ~id.ok THEN <<>>
        ELSE <<[id |-> id.val,
                categoryId |-> IF cat.ok THEN cat.val ELSE NewLiveStream.categoryId,
                number |-> IF num.ok THEN num.val ELSE NewLiveStream.number,
                name |-> IF name.ok THEN name.val ELSE NewLiveStream.name,
                icon |-> IF icon.ok THEN icon.val ELSE NewLiveStream.icon]>>

\* impl values under which ForEachTopLevelObjectSpan runs, by caller:
\* "xtream" is FetchLiveCategories, "xtream.streams" is FetchLiveStreams
XtreamCallers == {"xtream", "xtream.streams"}

\* the callback of the caller
Decode(caller, obj) ==
    IF caller = "xtream" THEN DecodeCategory(obj) ELSE DecodeStream(obj)

\* the wording of the caller's FetchResult details
Noun(caller) == IF caller = "xtream" THEN "categories" ELSE "streams"

NotArrayDetails(caller) ==
    IF caller = "xtream" THEN NotArrayMsg ELSE "Streams response was not a JSON array"

\* text of the half-open span [from, to)
Slice(s, from, to) == SubSeq(s, from + 1, to)

\* FetchLiveCategories / FetchLiveStreams return before parsing: no URL or
\* HttpGet not ok
FetchFail ==
    /\ spc = "start" /\ impl \in XtreamCallers
    /\ ~(fetch.url /\ fetch.ok)
    /\ out' = <<>>
    /\ result' = [ok |-> FALSE,
                  details |-> IF ~fetch.url THEN "Failed to build " \o Noun(impl) \o " URL"
                              ELSE IF fetch.protocol = "" THEN "Failed to fetch " \o Noun(impl)
                              ELSE fetch.protocol]
    /\ spc' = "done"
    /\ UNCHANGED <<impl, fetch, json, i, inString, escape, depth, objStart, any,
                   spans, scanRet>>
    /\ UNCHANGED <<xmlVars, fieldVars, restVars>>

\* ForEachTopLevelObjectSpan up to its loop
XtreamScanBegin ==
    /\ spc = "start" /\ impl \in XtreamCallers
    /\ fetch.url /\ fetch.ok
    /\ out' = <<>>
    /\ LET i0 == SkipSpace(json, 0)
       IN  /\ i' = i0
           /\ IF i0 >= Len(json) \/ At(json, i0) # "["
              THEN scanRet' = FALSE /\ spc' = "returned"
              ELSE scanRet' = scanRet /\ spc' = "loop"
    /\ inString' = FALSE /\ escape' = FALSE /\ depth' = 0
    /\ objStart' = NPos /\ any' = FALSE
    /\ UNCHANGED <<impl, fetch, json, spans, result>>
    /\ UNCHANGED <<xmlVars, fieldVars, restVars>>

\* one iteration of the loop of ForEachTopLevelObjectSpan, fn included
XtreamScanStep ==
    /\ spc = "loop" /\ impl \in XtreamCallers
    /\ i < Len(json)
    /\ LET r == XtreamScanChar(At(json, i), i, Locals)
       IN  /\ inString' = r.inString /\ escape' = r.escape /\ depth' = r.depth
           /\ objStart' = r.objStart /\ any' = r.any
           /\ IF r.emit = <<>>
              THEN UNCHANGED <<spans, out>>
              ELSE /\ spans' = Append(spans, r.emit)
                   /\ out' = out \o Decode(impl, Slice(json, r.emit[1], r.emit[2]))
    /\ i' = i + 1
    /\ UNCHANGED <<impl, fetch, json, result, scanRet, spc>>
    /\ UNCHANGED <<xmlVars, fieldVars, restVars>>

\* the loop of ForEachTopLevelObjectSpan ends: return any
XtreamScanEnd ==
    /\ spc = "loop" /\ impl \in XtreamCallers
    /\ i >= Len(json)
    /\ scanRet' = any
    /\ spc' = "returned"
    /\ UNCHANGED <<impl, fetch, json, i, inString, escape, depth, objStart, any,
                   spans, out, result>>
    /\ UNCHANGED <<xmlVars, fieldVars, restVars>>

\* FetchLiveCategories / FetchLiveStreams after the scanner returned
FetchFinish ==
    /\ spc = "returned" /\ impl \in XtreamCallers
    /\ result' = IF ~scanRet THEN [ok |-> FALSE, details |-> NotArrayDetails(impl)]
                 ELSE IF out = <<>>
                      THEN [ok |-> FALSE, details |-> "No " \o Noun(impl) \o " parsed"]
                 ELSE [ok |-> TRUE,
                       details |-> IF fetch.protocol = "" THEN "OK" ELSE fetch.protocol]
    /\ spc' = "done"
    /\ UNCHANGED <<impl, fetch, json, i, inString, escape, depth, objStart, any,
                   spans, out, scanRet>>
    /\ UNCHANGED <<xmlVars, fieldVars, restVars>>

\* ForEachObjectInArray up to its loop
DispatcharrScanBegin ==
    /\ spc = "start" /\ impl = "dispatcharr"
    /\ LET i0 == SkipSpace(json, 0)
       IN  /\ i' = i0
           /\ IF i0 >= Len(json) \/ At(json, i0) # "["
              THEN scanRet' = FALSE /\ spc' = "done"
              ELSE scanRet' = scanRet /\ spc' = "loop"
    /\ inString' = FALSE /\ escape' = FALSE /\ depth' = 0 /\ objStart' = NPos
    /\ UNCHANGED <<impl, fetch, json, any, spans, out, result>>
    /\ UNCHANGED <<xmlVars, fieldVars, restVars>>

\* one iteration of the loop of ForEachObjectInArray; fn records the span
DispatcharrScanStep ==
    /\ spc = "loop" /\ impl = "dispatcharr"
    /\ i < Len(json)
    /\ LET r == DispatcharrScanChar(At(json, i), i, Locals)
       IN  /\ inString' = r.inString /\ escape' = r.escape /\ depth' = r.depth
           /\ objStart' = r.objStart
           /\ spans' = IF r.emit = <<>> THEN spans ELSE Append(spans, r.emit)
           /\ IF r.stop
              THEN i' = i /\ scanRet' = TRUE /\ spc' = "done"
              ELSE i' = i + 1 /\ UNCHANGED <<scanRet, spc>>
    /\ UNCHANGED <<impl, fetch, json, any, out, result>>
    /\ UNCHANGED <<xmlVars, fieldVars, restVars>>

\* the loop of ForEachObjectInArray runs off the end of the text
DispatcharrScanEnd ==
    /\ spc = "loop" /\ impl = "dispatcharr"
    /\ i >= Len(json)
    /\ scanRet' = TRUE
    /\ spc' = "done"
    /\ UNCHANGED <<impl, fetch, json, i, inString, escape, depth, objStart, any,
                   spans, out, result>>
    /\ UNCHANGED <<xmlVars, fieldVars, restVars>>

XmlIdle ==
    /\ docKind = "none" /\ streams = <<>>
    /\ streamIdToName = EmptyMap /\ streamNameToId = EmptyMap
    /\ docChannels = <<>> /\ chanNode = NoNode /\ mappedId = ""
    /\ epgMap = EmptyMap /\ progNode = NoProg /\ nProg = 0
    /\ programmeCount = 0 /\ channelEpgs = {} /\ xmlRet = FALSE /\ xpc = "idle"

InitScan ==
    /\ impl \in {"xtream", "dispatcharr"}
    /\ \/ fetch = OkFetch /\ json \in JsonInputs
       \/ impl = "xtream" /\ fetch \in FailedFetches /\ json = ""
    /\ i = 0
    /\ inString = FALSE /\ escape = FALSE /\ depth = 0 /\ objStart = NPos
    /\ any = FALSE
    /\ spans = <<>>
    /\ out = <<>>
    /\ result = [ok |-> FALSE, details |-> ""]
    /\ scanRet = FALSE
    /\ spc = "start"
    /\ XmlIdle
    /\ FieldIdle
    /\ HttpIdle /\ AllIdle /\ ClientIdle

NextScan ==
    \/ FetchFail
    \/ XtreamScanBegin
    \/ XtreamScanStep
    \/ XtreamScanEnd
    \/ FetchFinish
    \/ DispatcharrScanBegin
    \/ DispatcharrScanStep
    \/ DispatcharrScanEnd

SpecScan == InitScan /\ [][NextScan]_vars

(***************************************************************************)
(* The category and stream decoders                                        *)
(***************************************************************************)
MaxRecords == 2

\* objects of a get_live_categories response
CategoryObjects ==
    { "{\"category_id\":\"4\",\"category_name\":\"News\",\"parent_id\":0}",
      "{\"category_id\":5}",
      "{\"category_name\":\"Kids\"}",
      "{\"category_id\":6,\"category_name\":7}",
      "{\"category_id\":\"abc\",\"category_name\":\"Film\"}",
      "{\"category_id\":8,\"parent\":{\"category_name\":\"Top\"}}" }

\* objects of a get_live_streams response
StreamObjects ==
    { "{\"num\":1,\"name\":\"BBC\",\"stream_id\":3,\"stream_icon\":\"i.png\",\"category_id\":\"2\"}",
      "{\"stream_id\":\"9\"}",
      "{\"name\":\"ITV\",\"num\":2}",
      "{\"stream_id\":null,\"name\":\"Sky\"}",
      "{\"stream_id\":7,\"num\":\"x\",\"name\":5,\"stream_icon\":null,\"category_id\":[2]}",
      "{\"stream_id\":5,\"epg\":\"name\",\"stream_icon\":\"i.png\"}" }

DecodeInputs(caller) ==
    LET pool == IF caller = "xtream" THEN CategoryObjects ELSE StreamObjects
    IN  {"[" \o Join(elems) \o "]" : elems \in SeqsUpTo(pool, MaxRecords)}

InitDecode ==
    /\ impl \in XtreamCallers
    /\ \/ fetch = OkFetch /\ json \in DecodeInputs(impl)
       \/ fetch \in FailedFetches /\ json = ""
    /\ i = 0
    /\ inString = FALSE /\ escape = FALSE /\ depth = 0 /\ objStart = NPos
    /\ any = FALSE
    /\ spans = <<>>
    /\ out = <<>>
    /\ result = [ok |-> FALSE, details |-> ""]
    /\ scanRet = FALSE
    /\ spc = "start"
    /\ XmlIdle
    /\ FieldIdle
    /\ HttpIdle /\ AllIdle /\ ClientIdle

NextDecode ==
    \/ FetchFail
    \/ XtreamScanBegin
    \/ XtreamScanStep
    \/ XtreamScanEnd
    \/ FetchFinish

SpecDecode == InitDecode /\ [][NextDecode]_vars

(***************************************************************************)
(* Field extractors: inputs                                                *)
(***************************************************************************)
MaxIntValue == 12

\* what may stand at the value position of an integer field
IntTexts ==
    {IntToString(v) : v \in (-MaxIntValue)..MaxIntValue}
    \cup {"007", "-08", "5x", "abc", "", "-", "null", " 5", "x5"}

IntObject(t, quoted, lead) ==
    "{\"id\":" \o lead \o (IF quoted THEN "\"" \o t \o "\"" ELSE t) \o "}"

IntObjects == {IntObject(t, q, lead) : t \in IntTexts, q \in BOOLEAN, lead \in {"", " "}}

\* objects in which the text "id" or "name" in quotes occurs before the key
KeyTrapObjects ==
    { "{\"type\":\"id\",\"id\":5}",
      "{\"type\":\"id\",\"x\":7,\"id\":5}",
      "{\"note\":\"say \\\"id\\\" twice\",\"x\":7,\"id\":5}",
      "{\"note\":\"\\\"id\\\" or \\\"id\",\"x\":7,\"id\":5}",
      "{\"note\":\"id\",\"x\":\"7\",\"id\":\"5\"}",
      "{\"note\":\"the \\\"name\\\" tag\",\"name\":\"A\"}",
      "{\"title\":\"name\",\"name\":\"A\"}",
      "{\"title\":\"name\",\"x\":\"B\",\"name\":\"A\"}",
      "{\"title\":\"name\",\"x\":3,\"name\":\"A\"}",
      "{\"x\":7,\"id\":5,\"name\":\"A\"}" }

\* bodies of string values (the text between the quotes)
StringTexts ==
    { "", "A", "a\\\"b", "a\\\\b", "a\\/b", "a\\bb", "a\\fb", "a\\nb", "a\\rb", "a\\tb",
      "\\u00e9", "\\u00E9", "\\u0041", "\\u20AC", "\\uD83D\\uDE00", "\\ud83d\\ude00",
      "\\uD800", "\\uDE00", "\\uD800\\u0041", "\\uD83Dx", "\\uD800\\uD800",
      "\\uDBFF\\uDFFF", "x\\uD83D\\uDE00y", "\\u00zz", "\\qz",
      "\\u007F", "\\u0080", "\\u07FF", "\\u0800", "\\uFFFF", "\\uD7FF", "\\uE000",
      "\\uDBFF", "\\uDC00", "\\uD800\\uDC00", "\\uDFFF\\uD800" }

StringObject(t, lead) == "{\"name\":" \o lead \o "\"" \o t \o "\"}"

StringObjects ==
    {StringObject(t, lead) : t \in StringTexts, lead \in {"", " "}}
    \cup {"{\"name\":5}", "{\"name\":\"open", "{\"name\":null,\"x\":\"y\"}"}

\* what may stand at the value position of a boolean field
BoolTexts ==
    { "true", "false", "1", "0", "10", "01", "2", "trueish", "falsey", "tru",
      "null", "\"true\"", "\"1\"", "" }

BoolObject(t, lead, more) ==
    "{\"on\":" \o lead \o t \o (IF more THEN ",\"x\":1}" ELSE "}")

BoolObjects == {BoolObject(t, lead, more) : t \in BoolTexts, lead \in {"", " "}, more \in BOOLEAN}

\* nested values (the text of the value of key "info")
NestedTexts ==
    { "{}", "[]", "{\"a\":1}", "{\"a\":{\"b\":2}}", "[1,[2,3]]", "[{\"a\":[1]}]",
      "{\"a\":[1,2]}", "{\"s\":\"}\"}", "{\"s\":\"{\"}", "[\"]\"]", "[\"[\",1]",
      "{\"s\":\"a\\\"}\"}", "{\"s\":\"[\"]}" }

NestedObject(t, lead, more) ==
    "{\"info\":" \o lead \o t \o (IF more THEN ",\"x\":{\"y\":1}}" ELSE "}")

NestedObjects ==
    {NestedObject(t, lead, more) : t \in NestedTexts, lead \in {"", " "}, more \in BOOLEAN}
    \cup {"{\"info\":5}", "{\"info\":\"{}\"}", "{\"info\":{\"a\":1}", "{\"x\":1}"}

FieldObjects == IntObjects \cup KeyTrapObjects \cup StringObjects \cup BoolObjects \cup NestedObjects

FieldKeys == {"id", "name", "on", "info"}

IntFns == {"xtream.ExtractIntField", "dispatcharr.ExtractIntField"}
StringFns == {"xtream.ExtractStringField", "dispatcharr.ExtractStringField"}
BoolFn == "dispatcharr.ExtractBoolField"
RawFn == "dispatcharr.ExtractRawJsonField"
FieldFns == IntFns \cup StringFns \cup {BoolFn, RawFn}

\* the value of the caller's variable before the call
IntBefore == 77
StringBefore == <<Ord("?")>>
RawBefore == "?"

OutBefore(fn) ==
    IF fn \in IntFns THEN {IntBefore}
    ELSE IF fn \in StringFns THEN {StringBefore}
    ELSE IF fn = BoolFn THEN BOOLEAN
    ELSE {RawBefore}

(***************************************************************************)
(* Field extractors: one call each                                         *)
(***************************************************************************)
\* out is assigned only on success
FieldCall(fn, r) ==
    /\ fieldPc = "call"
    /\ fieldFn = fn
    /\ fieldRet' = r.ok
    /\ fieldOut' = IF r.ok THEN r.val ELSE fieldOut
    /\ fieldPc' = "done"
    /\ UNCHANGED <<fieldFn, fieldObj, fieldKey>>
    /\ UNCHANGED <<xmlVars, scanVars, restVars>>

XtreamExtractInt == FieldCall("xtream.ExtractIntField", ExtractIntField(fieldObj, fieldKey))

XtreamExtractString == FieldCall("xtream.ExtractStringField", ExtractStringField(fieldObj, fieldKey))

DispatcharrExtractInt ==
    FieldCall("dispatcharr.ExtractIntField", DispatcharrExtractIntField(fieldObj, fieldKey))

DispatcharrExtractString ==
    FieldCall("dispatcharr.ExtractStringField", DispatcharrExtractStringField(fieldObj, fieldKey))

DispatcharrExtractBool == FieldCall(BoolFn, ExtractBoolField(fieldObj, fieldKey))

DispatcharrExtractRawJson == FieldCall(RawFn, ExtractRawJsonField(fieldObj, fieldKey))

InitField ==
    /\ fieldFn \in FieldFns
    /\ fieldObj \in FieldObjects
    /\ fieldKey \in FieldKeys
    /\ fieldOut \in OutBefore(fieldFn)
    /\ fieldRet = FALSE
    /\ fieldPc = "call"
    /\ XmlIdle
    /\ ScanIdle
    /\ HttpIdle /\ AllIdle /\ ClientIdle

NextField ==
    \/ XtreamExtractInt
    \/ XtreamExtractString
    \/ DispatcharrExtractInt
    \/ DispatcharrExtractString
    \/ DispatcharrExtractBool
    \/ DispatcharrExtractRawJson

SpecField == InitField /\ [][NextField]_vars

(***************************************************************************)
(* HttpGet, ReadAll and the callers of HttpGet (xtream_client.cpp)         *)
(* The cap kMaxHttpBodyBytes (50 MiB) and the read buffer (16 KiB) are     *)
(* scaled down to MaxBodyBytes and BufSize.                                *)
(***************************************************************************)
MaxBodyBytes == 24
BufSize == 8

\* ReadAll without a cap
CapNeverExceeded(size, maxBytes) == FALSE

\* the test that ends ReadAll with false
CapExceeded(size, maxBytes) == size > maxBytes

\* IsHttpStatusOk: the text between the first two spaces is a number in
\* 200..299 (std::stoi throws when it converts nothing)
IsHttpStatusOk(protocol) ==
    LET firstSpace == Find(protocol, " ", 0)
        secondSpace == Find(protocol, " ", firstSpace + 1)
        codeStr == Slice(protocol, firstSpace + 1, secondSpace)
    IN  IF firstSpace = NPos THEN FALSE
        ELSE IF secondSpace = NPos \/ secondSpace <= firstSpace + 1 THEN FALSE
        ELSE IF Strtol(codeStr).end = 0 THEN FALSE
        ELSE Strtol(codeStr).val >= 200 /\ Strtol(codeStr).val < 300

RECURSIVE Spaces(_)
Spaces(n) == IF n <= 0 THEN "" ELSE " " \o Spaces(n - 1)

\* text s followed by spaces up to length n
Pad(s, n) == s \o Spaces(n - Len(s))

\* response bodies: short ones, one of exactly the cap, longer ones
ServerBodies ==
    { "",
      "[{\"category_id\":4}]",
      "[{\"stream_id\":3}]",
      "<tv></tv>",
      "{\"user_info\":{}}",
      Pad("[{\"category_id\":4}]", MaxBodyBytes),
      Pad("[{\"category_id\":4}]", MaxBodyBytes + 1),
      "[{\"category_id\":4},{\"category_id\":5},{\"category_id\":6}]",
      "[{\"stream_id\":3},{\"stream_id\":9},{\"stream_id\":11}]",
      "<?xml version=\"1.0\"?><tv><channel id=\"1\"/></tv>",
      "{\"user_info\":{\"auth\":1,\"status\":\"Active\"}}" }

ServerProtocols == {"HTTP/1.1 200 OK", "HTTP/1.1 404 Not Found", "HTTP/1.1 OK", ""}

Servers ==
    {NoServer} \cup
    {[open |-> TRUE, protocol |-> pr, body |-> b] : pr \in ServerProtocols, b \in ServerBodies}

\* impl values of the callers of HttpGet
HttpCallers == XtreamCallers \cup {"xtream.xmltv", "xtream.test"}

\* HttpGet returns r to its caller
HttpReturn(r) ==
    /\ fetch' = [url |-> TRUE, ok |-> r.ok, protocol |-> r.protocol]
    /\ json' = r.body
    /\ hpc' = "done"
    /\ spc' = "start"

\* HttpGet up to ReadAll: CURLOpen
HttpOpen ==
    /\ hpc = "open"
    /\ IF ~server.open
       THEN /\ HttpReturn([ok |-> FALSE, protocol |-> "", body |-> ""])
            /\ UNCHANGED httpBody
       ELSE /\ httpBody' = ""
            /\ hpc' = "read"
            /\ UNCHANGED <<fetch, json, spc>>
    /\ UNCHANGED <<server, readPos, xmltvData>>
    /\ UNCHANGED <<impl, i, inString, escape, depth, objStart, any, spans, out,
                   result, scanRet>>
    /\ UNCHANGED <<xmlVars, fieldVars, allVars, clientVars>>

\* one iteration of ReadAll's loop in which file.Read delivers n bytes
HttpRead(n) ==
    /\ hpc = "read"
    /\ readPos + n <= Len(server.body)
    /\ readPos' = readPos + n
    /\ httpBody' = httpBody \o Slice(server.body, readPos, readPos + n)
    /\ IF CapExceeded(Len(httpBody'), MaxBodyBytes)
       THEN HttpReturn([ok |-> FALSE,
                        protocol |-> IF server.protocol = "" THEN "Body too large"
                                     ELSE server.protocol,
                        body |-> httpBody'])
       ELSE UNCHANGED <<fetch, json, hpc, spc>>
    /\ UNCHANGED <<server, xmltvData>>
    /\ UNCHANGED <<impl, i, inString, escape, depth, objStart, any, spans, out,
                   result, scanRet>>
    /\ UNCHANGED <<xmlVars, fieldVars, allVars, clientVars>>

\* file.Read gives 0: ReadAll returns true and HttpGet sets ok and protocol
HttpEof ==
    /\ hpc = "read"
    /\ readPos = Len(server.body)
    /\ LET looksHttpOk == IsHttpStatusOk(server.protocol)
       IN  HttpReturn([ok |-> looksHttpOk,
                       protocol |-> IF ~looksHttpOk /\ server.protocol = ""
                                    THEN (IF httpBody = "" THEN "Empty response"
                                          ELSE "Unexpected response")
                                    ELSE server.protocol,
                       body |-> httpBody])
    /\ UNCHANGED <<server, readPos, httpBody, xmltvData>>
    /\ UNCHANGED <<impl, i, inString, escape, depth, objStart, any, spans, out,
                   result, scanRet>>
    /\ UNCHANGED <<xmlVars, fieldVars, allVars, clientVars>>

\* FetchXMLTVEpg after HttpGet
FetchXMLTVEpg ==
    /\ spc = "start" /\ impl = "xtream.xmltv"
    /\ IF ~fetch.ok
       THEN /\ xmltvData' = ""
            /\ result' = [ok |-> FALSE,
                          details |-> IF fetch.protocol = "" THEN "Failed to fetch XMLTV"
                                      ELSE fetch.protocol]
       ELSE /\ xmltvData' = json
            /\ result' =
                 IF json = "" THEN [ok |-> FALSE, details |-> "XMLTV response is empty"]
                 ELSE IF Find(json, "<?xml", 0) = NPos /\ Find(json, "<tv", 0) = NPos
                      THEN [ok |-> FALSE,
                            details |-> "XMLTV response doesn't appear to be XML"]
                 ELSE [ok |-> TRUE,
                       details |-> IF fetch.protocol = "" THEN "OK" ELSE fetch.protocol]
    /\ spc' = "done"
    /\ UNCHANGED <<server, readPos, httpBody, hpc>>
    /\ UNCHANGED <<impl, fetch, json, i, inString, escape, depth, objStart, any,
                   spans, out, scanRet>>
    /\ UNCHANGED <<xmlVars, fieldVars, allVars, clientVars>>

\* MakeSimpleGetAndSniffJson after HttpGet
MakeSimpleGetAndSniffJson ==
    /\ spc = "start" /\ impl = "xtream.test"
    /\ result' =
         IF ~fetch.ok
         THEN [ok |-> FALSE,
               details |-> IF fetch.protocol = "" THEN "Failed to open URL"
                           ELSE fetch.protocol]
         ELSE LET bodyLower == ToLower(json)
                  looksXtream == \/ Find(bodyLower, "\"user_info\"", 0) # NPos
                                 \/ Find(bodyLower, "\"server_info\"", 0) # NPos
                                 \/ Find(bodyLower, "\"auth\":1", 0) # NPos
                  looksHttpOk == \/ Find(fetch.protocol, " 200 ", 0) # NPos
                                 \/ Find(fetch.protocol, " 201 ", 0) # NPos
              IN  IF looksXtream \/ looksHttpOk
                  THEN [ok |-> TRUE,
                        details |-> IF fetch.protocol # "" THEN fetch.protocol ELSE "OK"]
                  ELSE [ok |-> FALSE,
                        details |-> IF fetch.protocol # "" THEN fetch.protocol
                                    ELSE IF json # "" THEN "Unexpected response"
                                    ELSE "Empty response"]
    /\ spc' = "done"
    /\ UNCHANGED httpVars
    /\ UNCHANGED <<impl, fetch, json, i, inString, escape, depth, objStart, any,
                   spans, out, scanRet>>
    /\ UNCHANGED <<xmlVars, fieldVars, allVars, clientVars>>

InitHttp ==
    /\ impl \in HttpCallers
    /\ server \in Servers
    /\ readPos = 0 /\ httpBody = "" /\ xmltvData = "" /\ hpc = "open"
    /\ fetch = [url |-> TRUE, ok |-> FALSE, protocol |-> ""]
    /\ json = ""
    /\ i = 0
    /\ inString = FALSE /\ escape = FALSE /\ depth = 0 /\ objStart = NPos
    /\ any = FALSE
    /\ spans = <<>>
    /\ out = <<>>
    /\ result = [ok |-> FALSE, details |-> ""]
    /\ scanRet = FALSE
    /\ spc = "http"
    /\ XmlIdle
    /\ FieldIdle
    /\ AllIdle /\ ClientIdle

NextHttp ==
    \/ HttpOpen
    \/ \E n \in 1..BufSize : HttpRead(n)
    \/ HttpEof
    \/ FetchFail
    \/ XtreamScanBegin
    \/ XtreamScanStep
    \/ XtreamScanEnd
    \/ FetchFinish
    \/ FetchXMLTVEpg
    \/ MakeSimpleGetAndSniffJson

SpecHttp == InitHttp /\ [][NextHttp]_vars

(***************************************************************************)
(* FetchAllLiveStreams                                                     *)
(***************************************************************************)
Category(id, name) == [NewLiveCategory EXCEPT !.id = id, !.name = name]
Stream(id, categoryId) == [NewLiveStream EXCEPT !.id = id, !.categoryId = categoryId]

CatNews == Category(4, <<78>>)
CatSport == Category(9, <<83>>)
CatNone == Category(0, <<>>)

\* what a call of FetchLiveCategories may give: ok with at least one record,
\* or a failure with out left empty
CategoryOutcomes ==
    { [ok |-> TRUE, details |-> "OK", out |-> <<CatNews>>],
      [ok |-> TRUE, details |-> "HTTP/1.1 200 OK", out |-> <<CatNews, CatSport>>],
      [ok |-> TRUE, details |-> "OK", out |-> <<CatSport, CatNone>>],
      [ok |-> FALSE, details |-> "Failed to fetch categories", out |-> <<>>],
      [ok |-> FALSE, details |-> "No categories parsed", out |-> <<>>] }

\* what a call of FetchLiveStreams may give
StreamOutcomes ==
    { [ok |-> TRUE, details |-> "OK", out |-> <<Stream(1, 4)>>],
      [ok |-> TRUE, details |-> "HTTP/1.1 200 OK", out |-> <<Stream(2, 9), Stream(3, 4)>>],
      [ok |-> TRUE, details |-> "OK", out |-> <<Stream(5, 0)>>],
      [ok |-> FALSE, details |-> "HTTP/1.1 404 Not Found", out |-> <<>>],
      [ok |-> FALSE, details |-> "Streams response was not a JSON array", out |-> <<>>],
      [ok |-> FALSE, details |-> "No streams parsed", out |-> <<>>] }

\* what the caller's vectors may hold when FetchAllLiveStreams is entered
StaleCategories == {<<>>, <<Category(1, <<79>>)>>}
StaleStreams == {<<>>, <<Stream(8, 1)>>}

\* a nested fetch and its outcome
Fetched(fn, categoryId, r) ==
    [fn |-> fn, categoryId |-> categoryId, ok |-> r.ok, details |-> r.details, out |-> r.out]

\* clear() left out
NotCleared(v) == v

\* v.clear()
Cleared(v) == <<>>

\* categories.clear(); streams.clear(); FetchLiveCategories(settings, cats)
AllFetchCategories(r) ==
    /\ apc = "start"
    /\ categories' = Cleared(categories)
    /\ allStreams' = Cleared(allStreams)
    /\ cats' = r.out
    /\ replies' = <<Fetched("FetchLiveCategories", 0, r)>>
    /\ IF ~r.ok
       THEN /\ allRes' = [ok |-> r.ok, details |-> r.details]
            /\ apc' = "done"
       ELSE /\ apc' = "bulk"
            /\ UNCHANGED allRes
    /\ UNCHANGED <<all, catIndex>>
    /\ UNCHANGED <<xmlVars, scanVars, fieldVars, httpVars, clientVars>>

\* FetchLiveStreams(settings, 0, streamsAll)
AllFetchBulk(r) ==
    /\ apc = "bulk"
    /\ replies' = Append(replies, Fetched("FetchLiveStreams", 0, r))
    /\ IF r.ok
       THEN /\ categories' = cats
            /\ allStreams' = r.out
            /\ allRes' = [ok |-> TRUE, details |-> r.details]
            /\ apc' = "done"
       ELSE /\ apc' = "loop"
            /\ UNCHANGED <<categories, allStreams, allRes>>
    /\ UNCHANGED <<cats, all, catIndex>>
    /\ UNCHANGED <<xmlVars, scanVars, fieldVars, httpVars, clientVars>>

\* one iteration of the fallback loop: FetchLiveStreams(settings, c.id, s)
AllFetchCategory(r) ==
    /\ apc = "loop"
    /\ catIndex < Len(cats)
    /\ replies' = Append(replies, Fetched("FetchLiveStreams", cats[catIndex + 1].id, r))
    /\ IF ~r.ok
       THEN /\ allRes' = [ok |-> r.ok, details |-> r.details]
            /\ apc' = "done"
            /\ UNCHANGED <<all, catIndex>>
       ELSE /\ all' = all \o r.out
            /\ catIndex' = catIndex + 1
            /\ UNCHANGED <<allRes, apc>>
    /\ UNCHANGED <<categories, allStreams, cats>>
    /\ UNCHANGED <<xmlVars, scanVars, fieldVars, httpVars, clientVars>>

\* the fallback loop has fetched every category
AllFinish ==
    /\ apc = "loop"
    /\ catIndex = Len(cats)
    /\ categories' = cats
    /\ allStreams' = all
    /\ allRes' = [ok |-> TRUE, details |-> replies[1].details]
    /\ apc' = "done"
    /\ UNCHANGED <<replies, cats, all, catIndex>>
    /\ UNCHANGED <<xmlVars, scanVars, fieldVars, httpVars, clientVars>>

InitAll ==
    /\ replies = <<>>
    /\ categories \in StaleCategories
    /\ allStreams \in StaleStreams
    /\ cats = <<>> /\ all = <<>> /\ catIndex = 0
    /\ allRes = [ok |-> FALSE, details |-> ""]
    /\ apc = "start"
    /\ XmlIdle /\ ScanIdle /\ FieldIdle /\ HttpIdle /\ ClientIdle

NextAll ==
    \/ \E r \in CategoryOutcomes : AllFetchCategories(r)
    \/ \E r \in StreamOutcomes : AllFetchBulk(r)
    \/ \E r \in StreamOutcomes : AllFetchCategory(r)
    \/ AllFinish

SpecAll == InitAll /\ [][NextAll]_vars

(***************************************************************************)
(* dispatcharr Client                                                      *)
(***************************************************************************)
MaxOps == 2

\* m_settings of the Client
DvrSettings == [server |-> "dvr", port |-> 8080]

GetBaseUrl ==
    "http://" \o DvrSettings.server
    \o (IF DvrSettings.port # 80 /\ DvrSettings.port > 0
        THEN ":" \o IntToString(DvrSettings.port) ELSE "")

TokenEndpoint == "/api/accounts/token/"

\* what the server may do with the POST of EnsureToken
AuthReplies ==
    { [open |-> FALSE, body |-> ""],
      [open |-> TRUE, body |-> "{\"access\":\"t1\",\"refresh\":\"r1\"}"],
      [open |-> TRUE, body |-> "{\"refresh\":\"r2\",\"access\":\"t2\"}"],
      [open |-> TRUE, body |-> "{\"access\":\"\"}"],
      [open |-> TRUE, body |-> "{\"detail\":\"No active account\"}"] }

\* what the server may do with a request sent through Request
ApiReplies ==
    { [open |-> FALSE, body |-> ""],
      [open |-> TRUE, body |-> "{\"rules\":[{\"tvg_id\":\"bbc\",\"mode\":\"new\"},{\"title\":\"x\"}]}"],
      [open |-> TRUE, body |-> "[{\"id\":5,\"end_time\":\"2026-01-23T10:00:00Z\"}]"],
      [open |-> TRUE, body |-> "[{\"id\":6,\"custom_properties\":{\"program\":{\"title\":\"N\"}}}]"],
      [open |-> TRUE, body |-> "{\"success\":true}"],
      [open |-> TRUE, body |-> "{\"detail\":\"Given token not valid\"}"] }

\* the request EnsureToken sends, bypassing Request: no Authorization header
AuthRequest == [method |-> "POST", endpoint |-> TokenEndpoint, bearer |-> <<>>]

\* the request Request sends: the Authorization header carries the token
\* when it is not empty
ApiRequest(token, method, endpoint) ==
    [method |-> method, endpoint |-> endpoint, bearer |-> token]

\* the HttpResponse of Request
Response(r) ==
    [statusCode |-> IF r.open THEN 200 ELSE 0, body |-> IF r.open THEN r.body ELSE ""]

\* EnsureToken without the test of m_accessToken.empty()
EnsureTokenEveryTime(token, a) ==
    LET t == DispatcharrExtractStringField(a.body, "access")
    IN  IF a.open /\ t.ok /\ t.val # <<>>
        THEN [ok |-> TRUE, token |-> t.val, sent |-> TRUE]
        ELSE [ok |-> FALSE, token |-> token, sent |-> TRUE]

\* EnsureToken on a Client holding token, the server answering a: the return
\* value, m_accessToken afterwards, and whether a request was sent
EnsureToken(token, a) ==
    IF token # <<>> THEN [ok |-> TRUE, token |-> token, sent |-> FALSE]
    ELSE LET t == DispatcharrExtractStringField(a.body, "access")
         IN  IF a.open /\ t.ok /\ t.val # <<>>
             THEN [ok |-> TRUE, token |-> t.val, sent |-> TRUE]
             ELSE [ok |-> FALSE, token |-> token, sent |-> TRUE]

\* the character of a byte value (printable ASCII)
Chr(b) ==
    IF b >= 32 /\ b <= 95 THEN Ch(AsciiLow, b - 31)
    ELSE IF b >= 97 /\ b <= 126 THEN Ch(AsciiHigh, b - 96)
    ELSE "?"

RECURSIVE Text(_)
Text(bytes) == IF bytes = <<>> THEN "" ELSE Chr(Head(bytes)) \o Text(Tail(bytes))

\* sscanf(iso, "%d-%d-%dT%d:%d:%d", ...): the fields converted, in order;
\* lits holds the literal that precedes each remaining conversion
RECURSIVE IsoFields(_, _, _, _)
IsoFields(s, pos, lits, acc) ==
    IF lits = <<>> THEN acc
    ELSE LET lit == Head(lits)
             p1 == pos + Len(lit)
         IN  IF lit # "" /\ (p1 > Len(s) \/ Slice(s, pos, p1) # lit) THEN acc
             ELSE LET r == ScanInt(s, p1, Len(s))
                  IN  IF r.ok THEN IsoFields(s, r.pos, Tail(lits), Append(acc, r.val))
                      ELSE acc

\* ParseIsoTime: a field sscanf did not convert keeps the 0 of tm = {}
ParseIsoTime(iso) ==
    IF iso = "" THEN 0
    ELSE IF Len(iso) >= 19
    THEN LET f == IsoFields(iso, 0, <<"", "-", "-", "T", ":", ":">>, <<>>)
             g == [k \in 1..6 |-> IF k <= Len(f) THEN f[k] ELSE 0]
         IN  Mktime([tm_year |-> g[1] - 1900, tm_mon |-> g[2] - 1, tm_mday |-> g[3],
                     tm_hour |-> g[4], tm_min |-> g[5], tm_sec |-> g[6]])
    ELSE 0

\* ForEachObjectInArray from offset k on: the object texts handed to fn
RECURSIVE ObjectsFrom(_, _, _, _)
ObjectsFrom(arr, k, st, acc) ==
    IF k >= Len(arr) THEN acc
    ELSE LET r == DispatcharrScanChar(At(arr, k), k, st)
             acc1 == IF r.emit = <<>> THEN acc
                     ELSE Append(acc, Slice(arr, r.emit[1], r.emit[2]))
         IN  IF r.stop THEN acc1
             ELSE ObjectsFrom(arr, k + 1,
                              [inString |-> r.inString, escape |-> r.escape,
                               depth |-> r.depth, objStart |-> r.objStart,
                               any |-> r.any], acc1)

\* ForEachObjectInArray: the object texts handed to fn, in order
ForEachObjectInArray(arr) ==
    LET i0 == SkipSpace(arr, 0)
    IN  IF i0 >= Len(arr) \/ At(arr, i0) # "[" THEN <<>>
        ELSE ObjectsFrom(arr, i0,
                         [inString |-> FALSE, escape |-> FALSE, depth |-> 0,
                          objStart |-> NPos, any |-> FALSE], <<>>)

\* a default-constructed SeriesRule
NewSeriesRule == [tvgId |-> <<>>, title |-> <<>>, mode |-> <<>>]

\* a default-constructed Recording
NewRecording ==
    [id |-> 0, channelId |-> 0, title |-> <<>>, plot |-> <<>>, streamUrl |-> "",
     startTime |-> 0, endTime |-> 0]

\* the lambda of FetchSeriesRules: the records pushed for the object text obj
DecodeRule(obj) ==
    LET tvg == DispatcharrExtractStringField(obj, "tvg_id")
        title == DispatcharrExtractStringField(obj, "title")
        mode == DispatcharrExtractStringField(obj, "mode")
    IN  IF ~tvg.ok THEN <<>>
        ELSE <<[tvgId |-> tvg.val,
                title |-> IF title.ok THEN title.val ELSE NewSeriesRule.title,
                mode |-> IF mode.ok THEN mode.val ELSE NewSeriesRule.mode]>>

\* the lambda of FetchRecordings: the records pushed for the object text obj
DecodeRecording(obj) ==
    LET id == DispatcharrExtractIntField(obj, "id")
        channel == DispatcharrExtractIntField(obj, "channel")
        start == DispatcharrExtractStringField(obj, "start_time")
        end == DispatcharrExtractStringField(obj, "end_time")
        props == ExtractRawJsonField(obj, "custom_properties")
        program == ExtractRawJsonField(props.val, "program")
        title == DispatcharrExtractStringField(program.val, "title")
        plot == DispatcharrExtractStringField(program.val, "description")
        nested == props.ok /\ program.ok
    IN  IF ~id.ok THEN <<>>
        ELSE <<[id |-> id.val,
                channelId |-> IF channel.ok THEN channel.val ELSE NewRecording.channelId,
                title |-> IF nested /\ title.ok THEN title.val ELSE NewRecording.title,
                plot |-> IF nested /\ plot.ok THEN plot.val ELSE NewRecording.plot,
                streamUrl |-> GetBaseUrl \o "/api/channels/recordings/"
                              \o IntToString(id.val) \o "/file/",
                startTime |-> IF start.ok THEN ParseIsoTime(Text(start.val))
                              ELSE NewRecording.startTime,
                endTime |-> IF end.ok THEN ParseIsoTime(Text(end.val))
                            ELSE NewRecording.endTime]>>

RECURSIVE Records(_, _)
\* the records a lambda pushes over the object texts objs; rules selects the
\* lambda of FetchSeriesRules
Records(objs, rules) ==
    IF objs = <<>> THEN <<>>
    ELSE (IF rules THEN DecodeRule(Head(objs)) ELSE DecodeRecording(Head(objs)))
         \o Records(Tail(objs), rules)

\* what every operation does first: EnsureToken, and the record of the call
Entered(op, e, ret) ==
    /\ nOps < MaxOps
    /\ nOps' = nOps + 1
    /\ m_accessToken' = e.token
    /\ lastOp' = [op |-> op, ret |-> ret, tokenBefore |-> m_accessToken,
                  rulesBefore |-> outRules, recordingsBefore |-> outRecordings,
                  wireBefore |-> wire]
    /\ UNCHANGED <<xmlVars, scanVars, fieldVars, httpVars, allVars>>

\* the requests an operation adds to the wire
Sent(e, method, endpoint) ==
    (IF e.sent THEN <<AuthRequest>> ELSE <<>>)
    \o (IF e.ok THEN <<ApiRequest(e.token, method, endpoint)>> ELSE <<>>)

\* Client::EnsureToken called by the add-on
ClientEnsureToken(a) ==
    LET e == EnsureToken(m_accessToken, a)
    IN  /\ Entered("EnsureToken", e, e.ok)
        /\ wire' = wire \o (IF e.sent THEN <<AuthRequest>> ELSE <<>>)
        /\ UNCHANGED <<outRules, outRecordings>>

\* Client::FetchSeriesRules(outRules)
FetchSeriesRules(a, r) ==
    LET e == EnsureToken(m_accessToken, a)
        resp == Response(r)
        raw == ExtractRawJsonField(resp.body, "rules")
    IN  /\ wire' = wire \o Sent(e, "GET", "/api/channels/series-rules/")
        /\ UNCHANGED outRecordings
        /\ IF ~e.ok \/ resp.statusCode # 200
           THEN /\ Entered("FetchSeriesRules", e, FALSE)
                /\ UNCHANGED outRules
           ELSE /\ Entered("FetchSeriesRules", e, raw.ok)
                /\ outRules' = IF raw.ok
                               THEN Records(ForEachObjectInArray(raw.val), TRUE)
                               ELSE <<>>

\* Client::FetchRecordings(outRecordings)
FetchRecordings(a, r) ==
    LET e == EnsureToken(m_accessToken, a)
        resp == Response(r)
    IN  /\ wire' = wire \o Sent(e, "GET", "/api/channels/recordings/")
        /\ UNCHANGED outRules
        /\ IF ~e.ok \/ resp.statusCode # 200
           THEN /\ Entered("FetchRecordings", e, FALSE)
                /\ UNCHANGED outRecordings
           ELSE /\ Entered("FetchRecordings", e, TRUE)
                /\ outRecordings' = Records(ForEachObjectInArray(resp.body), FALSE)

\* Client::AddSeriesRule(tvgId, title, mode)
AddSeriesRule(a, r) ==
    LET e == EnsureToken(m_accessToken, a)
        resp == Response(r)
    IN  /\ wire' = wire \o Sent(e, "POST", "/api/channels/series-rules/")
        /\ Entered("AddSeriesRule", e,
                   /\ e.ok
                   /\ resp.statusCode = 200
                   /\ Find(resp.body, "\"success\":true", 0) # NPos)
        /\ UNCHANGED <<outRules, outRecordings>>

\* Client::DeleteRecording(id), id = 5
DeleteRecording(a, r) ==
    LET e == EnsureToken(m_accessToken, a)
        resp == Response(r)
    IN  /\ wire' = wire \o Sent(e, "DELETE", "/api/channels/recordings/"
                                              \o IntToString(5) \o "/")
        /\ Entered("DeleteRecording", e, e.ok /\ resp.statusCode = 200)
        /\ UNCHANGED <<outRules, outRecordings>>

\* what the caller's vectors may hold before the first operation
StaleRules == {<<>>, <<[NewSeriesRule EXCEPT !.tvgId = <<111>>]>>}
StaleRecordings == {<<>>, <<[NewRecording EXCEPT !.id = 1]>>}

InitClient ==
    /\ m_accessToken = <<>>
    /\ outRules \in StaleRules
    /\ outRecordings \in StaleRecordings
    /\ wire = <<>>
    /\ lastOp = NoOp
    /\ nOps = 0
    /\ XmlIdle /\ ScanIdle /\ FieldIdle /\ HttpIdle /\ AllIdle

NextClient ==
    \/ \E a \in AuthReplies : ClientEnsureToken(a)
    \/ \E a \in AuthReplies, r \in ApiReplies : FetchSeriesRules(a, r)
    \/ \E a \in AuthReplies, r \in ApiReplies : FetchRecordings(a, r)
    \/ \E a \in AuthReplies, r \in ApiReplies : AddSeriesRule(a, r)
    \/ \E a \in AuthReplies, r \in ApiReplies : DeleteRecording(a, r)

SpecClient == InitClient /\ [][NextClient]_vars

(***************************************************************************)
(* ParseXMLTV: properties                                                  *)
(***************************************************************************)
DeclaredIds == {docChannels[k].id : k \in 1..Len(docChannels)} \ {""}

\* a timestamp attribute in the documented form: 14 leading digits
WellFormedStamp(a) == Len(a) >= 14 /\ \A k \in 1..14 : IsDigit(Ch(a, k))

ValidTimes(p) ==
    /\ WellFormedStamp(p.start)
    /\ WellFormedStamp(p.stop)
    /\ ParseTime(p.start, 0) > 0
    /\ ParseTime(p.stop, 0) > ParseTime(p.start, 0)

\* a channel iteration that computed a join key has just run
ChannelResolved == xpc = "channels" /\ Len(docChannels) > 0 /\ chanNode.id # ""

\* a programme iteration has just run
ProgrammeVisited == xpc = "programmes" /\ nProg > 0

\* C1: every programme whose channel attribute is the id of a declared channel
\* and whose times are valid gets an entry in the schedule of that channel's
\* ChannelEpg, whichever rule produced the channel's join key.
C1_ProgrammeOfDeclaredChannelPlaced ==
    (ProgrammeVisited /\ progNode.channel \in DeclaredIds /\ ValidTimes(progNode))
    => \E k \in 1..Len(docChannels) :
          /\ docChannels[k].id = progNode.channel
          /\ LET key == JoinKey(streamIdToName, streamNameToId,
                                docChannels[k].id, docChannels[k].displayName)
                 t == ParseTime(progNode.start, 0)
             IN  /\ key \in DOMAIN epgMap
                 /\ t \in DOMAIN epgMap[key].entries
                 /\ epgMap[key].entries[t].channelId = progNode.channel
                 /\ epgMap[key].entries[t].title = progNode.title

\* C2: no schedule of the output holds a programme whose channel attribute is
\* not the id attribute of a channel declared in the same document.
C2_OnlyDeclaredChannelsRetained ==
    xpc = "done"
    => \A ce \in channelEpgs : \A t \in DOMAIN ce.entries :
          ce.entries[t].channelId \in DeclaredIds

\* C3: every entry of every returned ChannelEpg has endTime > startTime > 0.
C3_EntryTimesPositiveAndOrdered ==
    xpc = "done"
    => \A ce \in channelEpgs : \A t \in DOMAIN ce.entries :
          /\ ce.entries[t].startTime > 0
          /\ ce.entries[t].endTime > ce.entries[t].startTime

\* the text s, read as a whole, is the positive integer n
DenotesPositive(s, n) == n > 0 /\ Strtol(s).end = Len(s) /\ Strtol(s).val = n

\* C4: when xmltvId is a positive integer equal to some stream's id, the join
\* key is that id as text, even if another stream's name matches the channel's
\* display name.
C4_IdRuleWinsOverNameRule ==
    ChannelResolved
    => \A k \in 1..Len(streams) :
          DenotesPositive(chanNode.id, streams[k].id)
          => mappedId = IntToString(streams[k].id)

C4_Witness ==
    /\ ChannelResolved
    /\ \E k \in 1..Len(streams) :
          /\ DenotesPositive(chanNode.id, streams[k].id)
          /\ mappedId = IntToString(streams[k].id)
          /\ \E j \in 1..Len(streams) :
                /\ streams[j].id > 0
                /\ streams[j].id # streams[k].id
                /\ ToLower(streams[j].name) = ToLower(chanNode.displayName)

ExactIdFired == ChannelResolved /\ ExactIdMatch(streamIdToName, chanNode.id)

\* decimal text as std::to_string writes it: digits only, no leading zero
Canonical(s) ==
    /\ Len(s) > 0
    /\ \A k \in 1..Len(s) : IsDigit(Ch(s, k))
    /\ Ch(s, 1) # "0"

\* C5 as stated: whenever the exact-id rule fires, the join key is
\* character-for-character the original xmltvId.
C5_KeyEqualsXmltvId ==
    ExactIdFired => mappedId = chanNode.id

\* C5 as amended: whenever the exact-id rule fires, the join key is the
\* decimal text of the matched stream id, and it equals the original xmltvId
\* exactly when the xmltvId is written canonically.
C5_KeyIsCanonicalStreamId ==
    ExactIdFired
    => /\ \E k \in 1..Len(streams) :
             streams[k].id > 0 /\ mappedId = IntToString(streams[k].id)
       /\ Canonical(mappedId)
       /\ (mappedId = chanNode.id) <=> Canonical(chanNode.id)

C5_Witness ==
    /\ ExactIdFired
    /\ ~Canonical(chanNode.id)
    /\ mappedId # chanNode.id

NameRuleTried ==
    /\ ChannelResolved
    /\ ~ExactIdMatch(streamIdToName, chanNode.id)
    /\ chanNode.displayName # ""

\* streams of the catalog whose name equals the display name ignoring case
SameName(restrictToPositive) ==
    {k \in 1..Len(streams) :
        /\ ToLower(streams[k].name) = ToLower(chanNode.displayName)
        /\ (restrictToPositive => streams[k].id > 0)}

\* C6 as stated: when the exact-id rule does not fire and displayName is not
\* empty, the join key is the id of a stream of the catalog whose name equals
\* displayName ignoring case, whatever that stream's id, and the xmltvId
\* verbatim when no stream has such a name.
C6_NameRuleOverWholeCatalog ==
    NameRuleTried
    => IF SameName(FALSE) # {}
       THEN \E k \in SameName(FALSE) : mappedId = IntToString(streams[k].id)
       ELSE mappedId = chanNode.id

\* C6 as amended: the name rule only sees streams with a positive id.
C6_NameRuleOverPositiveIds ==
    NameRuleTried
    => IF SameName(TRUE) # {}
       THEN \E k \in SameName(TRUE) : mappedId = IntToString(streams[k].id)
       ELSE mappedId = chanNode.id

C6_Witness ==
    /\ NameRuleTried
    /\ SameName(FALSE) # {}
    /\ SameName(TRUE) = {}
    /\ mappedId = chanNode.id

\* the number of digits the attribute begins with
LeadingDigits(a) == SkipDigits(a, 0, Len(a))

\* an entry made from programme p is in some schedule
Scheduled(p) ==
    \E k \in DOMAIN epgMap : \E t \in DOMAIN epgMap[k].entries :
        /\ epgMap[k].entries[t].channelId = p.channel
        /\ epgMap[k].entries[t].title = p.title

\* C17: a start or stop attribute that does not begin with exactly 14 digits
\* leaves that time unset (0), and the programme is in no schedule.
C17_WrongDigitCountDropsProgramme ==
    ProgrammeVisited
    => /\ LeadingDigits(progNode.start) # 14 => EntryOf[progNode].startTime = 0
       /\ LeadingDigits(progNode.stop) # 14 => EntryOf[progNode].endTime = 0
       /\ (LeadingDigits(progNode.start) # 14 \/ LeadingDigits(progNode.stop) # 14)
          => ~Scheduled(progNode)

\* the programme of the iteration that has just run passed every test
ProgrammeRetained ==
    /\ ProgrammeVisited
    /\ progNode.channel # ""
    /\ progNode.channel \in DOMAIN epgMap
    /\ ~SkipEntry(EntryOf[progNode])

\* C18: a schedule is keyed by startTime, one entry per key, and after a
\* programme is retained the entry at its startTime is that programme's,
\* whatever entry the schedule had there before.
C18_LastProgrammeAtStartTimeWins ==
    /\ \A k \in DOMAIN epgMap : \A t \in DOMAIN epgMap[k].entries :
          epgMap[k].entries[t].startTime = t
    /\ ProgrammeRetained
       => LET e == EntryOf[progNode]
          IN  /\ e.startTime \in DOMAIN epgMap[progNode.channel].entries
              /\ epgMap[progNode.channel].entries[e.startTime] = e

\* two programmes were retained for the same channel and startTime, and the
\* later one (title "Film") took the place of the earlier one
C18_Witness ==
    /\ ProgrammeRetained
    /\ programmeCount = 2
    /\ progNode = ProgrammeNode("10", T12, T14, "Film")
    /\ Cardinality(DOMAIN epgMap["10"].entries) = 1
    /\ epgMap["10"].entries[EntryOf[progNode].startTime].title = "Film"

\* C19: every returned ChannelEpg has a non-empty schedule; a ChannelEpg is
\* returned exactly when its schedule received an entry.
C19_ReturnedChannelsHaveEntries ==
    (xpc = "done" /\ docKind = "tv")
    => /\ \A ce \in channelEpgs : DOMAIN ce.entries # {}
       /\ \A k \in DOMAIN epgMap :
             (epgMap[k] \in channelEpgs) <=> (DOMAIN epgMap[k].entries # {})
       /\ \A ce \in channelEpgs : \E k \in DOMAIN epgMap : ce = epgMap[k]

C19_Witness ==
    /\ xpc = "done" /\ docKind = "tv"
    /\ Cardinality(DOMAIN epgMap) = 2
    /\ Cardinality(channelEpgs) = 1
    /\ \E k \in DOMAIN epgMap : DOMAIN epgMap[k].entries = {}
    /\ \A ce \in channelEpgs : DOMAIN ce.entries # {}

(***************************************************************************)
(* Array scanners: properties                                              *)
(* The reference below reads the text by the JSON grammar (recursive       *)
(* descent); it shares nothing with the scanners' flags and counters.      *)
(***************************************************************************)
\* offset after the string whose body starts at p (after the opening quote)
RECURSIVE RefStringBody(_, _)
RefStringBody(s, p) ==
    IF p >= Len(s) THEN NPos
    ELSE IF At(s, p) = "\"" THEN p + 1
    ELSE IF At(s, p) = "\\" THEN (IF p + 1 < Len(s) THEN RefStringBody(s, p + 2) ELSE NPos)
    ELSE RefStringBody(s, p + 1)

RefIs(s, p, c) == p # NPos /\ p < Len(s) /\ At(s, p) = c

RefLiteral(s, p, word) ==
    IF p + Len(word) <= Len(s) /\ SubSeq(s, p + 1, p + Len(word)) = word
    THEN p + Len(word) ELSE NPos

\* offset after the JSON value that starts at p, NPos if there is none
RECURSIVE RefValue(_, _)
RECURSIVE RefMembers(_, _)
RECURSIVE RefItems(_, _)
RefValue(s, p) ==
    IF p = NPos \/ p >= Len(s) THEN NPos
    ELSE IF At(s, p) = "\"" THEN RefStringBody(s, p + 1)
    ELSE IF At(s, p) = "{"
         THEN LET q == SkipSpace(s, p + 1)
              IN  IF RefIs(s, q, "}") THEN q + 1 ELSE RefMembers(s, q)
    ELSE IF At(s, p) = "["
         THEN LET q == SkipSpace(s, p + 1)
              IN  IF RefIs(s, q, "]") THEN q + 1 ELSE RefItems(s, q)
    ELSE IF At(s, p) = "-" \/ IsDigit(At(s, p))
         THEN LET d0 == IF At(s, p) = "-" THEN p + 1 ELSE p
                  d1 == SkipDigits(s, d0, Len(s))
              IN  IF d1 = d0 THEN NPos ELSE d1
    ELSE IF At(s, p) = "t" THEN RefLiteral(s, p, "true")
    ELSE IF At(s, p) = "f" THEN RefLiteral(s, p, "false")
    ELSE IF At(s, p) = "n" THEN RefLiteral(s, p, "null")
    ELSE NPos

\* offset after the '}' of an object whose next member starts at q
RefMembers(s, q) ==
    IF ~RefIs(s, q, "\"") THEN NPos
    ELSE LET k == RefStringBody(s, q + 1)
             c == IF k = NPos THEN NPos ELSE SkipSpace(s, k)
         IN  IF ~RefIs(s, c, ":") THEN NPos
             ELSE LET v == RefValue(s, SkipSpace(s, c + 1))
                      e == IF v = NPos THEN NPos ELSE SkipSpace(s, v)
                  IN  IF RefIs(s, e, "}") THEN e + 1
                      ELSE IF RefIs(s, e, ",") THEN RefMembers(s, SkipSpace(s, e + 1))
                      ELSE NPos

\* offset after the ']' of an array whose next item starts at q
RefItems(s, q) ==
    LET v == RefValue(s, q)
        e == IF v = NPos THEN NPos ELSE SkipSpace(s, v)
    IN  IF RefIs(s, e, "]") THEN e + 1
        ELSE IF RefIs(s, e, ",") THEN RefItems(s, SkipSpace(s, e + 1))
        ELSE NPos

RefFail == [ok |-> FALSE, spans |-> <<>>, end |-> NPos]

\* the elements of a top-level array of objects from offset q on
RECURSIVE RefElems(_, _, _)
RefElems(s, q, acc) ==
    IF ~RefIs(s, q, "{") THEN RefFail
    ELSE LET v == RefValue(s, q)
             e == IF v = NPos THEN NPos ELSE SkipSpace(s, v)
         IN  IF RefIs(s, e, "]")
             THEN [ok |-> TRUE, spans |-> Append(acc, <<q, v>>), end |-> e + 1]
             ELSE IF RefIs(s, e, ",")
                  THEN RefElems(s, SkipSpace(s, e + 1), Append(acc, <<q, v>>))
                  ELSE RefFail

\* a top-level array of objects at the start of s: the spans of its elements
\* and the offset after its closing ']'
RefArray(s) ==
    LET p == SkipSpace(s, 0)
    IN  IF ~RefIs(s, p, "[") THEN RefFail
        ELSE LET q == SkipSpace(s, p + 1)
             IN  IF RefIs(s, q, "]") THEN [ok |-> TRUE, spans |-> <<>>, end |-> q + 1]
                 ELSE RefElems(s, q, <<>>)

\* the whole text is one array of objects (white space may surround it)
WellFormedArray(s) == RefArray(s).ok /\ SkipSpace(s, RefArray(s).end) = Len(s)

\* the string literals of s, each as the offsets of its quotes' span
RECURSIVE StringRanges(_, _)
StringRanges(s, p) ==
    IF p >= Len(s) THEN {}
    ELSE IF At(s, p) = "\""
         THEN LET e == RefStringBody(s, p + 1)
              IN  IF e = NPos THEN {} ELSE {<<p, e>>} \cup StringRanges(s, e)
         ELSE StringRanges(s, p + 1)

\* offset k lies between the quotes of a string literal
InsideString(s, k) == \E r \in StringRanges(s, 0) : r[1] < k /\ k < r[2] - 1

IsBrace(c) == c \in {"{", "}"}

\* the scanner has run on the text and returned
ScanReturned == spc \in {"returned", "done"} /\ fetch.url /\ fetch.ok

\* the element's only braces outside string literals are its outer pair
BracesOnlyInStrings(s, span) ==
    \A k \in (span[1] + 1)..(span[2] - 2) : IsBrace(At(s, k)) => InsideString(s, k)

HasBraceInString(s, span) ==
    \E k \in (span[1] + 1)..(span[2] - 2) : IsBrace(At(s, k)) /\ InsideString(s, k)

\* C7: no span boundary reported by either scanner lies inside a string
\* literal, and an array whose single element has braces only inside string
\* values yields exactly one span, covering that element.
C7_BracesInStringsAreNoBoundaries ==
    (ScanReturned /\ WellFormedArray(json))
    => /\ \A j \in 1..Len(spans) :
             /\ ~InsideString(json, spans[j][1])
             /\ ~InsideString(json, spans[j][2] - 1)
       /\ LET ref == RefArray(json).spans
          IN  (Len(ref) = 1 /\ BracesOnlyInStrings(json, ref[1]))
              => spans = ref

C7_Witness ==
    /\ ScanReturned /\ WellFormedArray(json)
    /\ Len(RefArray(json).spans) = 1
    /\ BracesOnlyInStrings(json, RefArray(json).spans[1])
    /\ HasBraceInString(json, RefArray(json).spans[1])
    /\ Find(json, "\\\"", 0) # NPos
    /\ spans = RefArray(json).spans

\* C8: for a well-formed array of objects the scanner reports exactly the
\* spans of the top-level elements, in array order, each from the element's
\* '{' to just after its matching '}'.
C8_OneSpanPerTopLevelElement ==
    (ScanReturned /\ WellFormedArray(json)) => spans = RefArray(json).spans

C8_Witness ==
    /\ ScanReturned /\ WellFormedArray(json)
    /\ Len(spans) = 2
    /\ spans = RefArray(json).spans
    /\ \E j \in 1..2 : ~BracesOnlyInStrings(json, spans[j])

\* C9: no span reported by either scanner ends after the ']' that closes the
\* top-level array.
C9_NothingReportedAfterArrayEnd ==
    (ScanReturned /\ RefArray(json).ok)
    => \A j \in 1..Len(spans) : spans[j][2] <= RefArray(json).end

NotArrayStart(s) == ~RefIs(s, SkipSpace(s, 0), "[")

IsEmptyArray(s) ==
    /\ RefArray(s).ok
    /\ RefArray(s).spans = <<>>
    /\ SkipSpace(s, RefArray(s).end) = Len(s)

\* C10: on text that does not begin with '[' the scanner reports no span and
\* returns failure (false); on an empty array it reports no span and its
\* outcome differs from that failure, so that FetchLiveCategories does not
\* report "not a JSON array".
C10_EmptyArrayIsNotAFailure ==
    ScanReturned
    => /\ NotArrayStart(json) => (spans = <<>> /\ scanRet = FALSE)
       /\ IsEmptyArray(json)
          => /\ spans = <<>>
             /\ out = <<>>
             /\ scanRet = TRUE
             /\ (impl = "xtream" /\ spc = "done") => result.details # NotArrayMsg

(***************************************************************************)
(* Field extractors: properties                                            *)
(* The reference reads the object by the JSON grammar (RefValue above).    *)
(***************************************************************************)
WellFormedObject(obj) == RefIs(obj, 0, "{") /\ RefValue(obj, 0) = Len(obj)

\* the offset of the opening quote of the top-level member named key, looking
\* from the member that starts at offset q; NPos if there is none
RECURSIVE RefKeyPos(_, _, _)
RefKeyPos(obj, q, key) ==
    IF ~RefIs(obj, q, "\"") THEN NPos
    ELSE LET k == RefStringBody(obj, q + 1)
             c == IF k = NPos THEN NPos ELSE SkipSpace(obj, k)
         IN  IF ~RefIs(obj, c, ":") THEN NPos
             ELSE IF SubSeq(obj, q + 2, k - 1) = key THEN q
             ELSE LET v == RefValue(obj, SkipSpace(obj, c + 1))
                      e == IF v = NPos THEN NPos ELSE SkipSpace(obj, v)
                  IN  IF RefIs(obj, e, ",") THEN RefKeyPos(obj, SkipSpace(obj, e + 1), key)
                      ELSE NPos

\* the offset at which the value of the member whose key opens at q starts
RefValueStart(obj, q) ==
    SkipSpace(obj, SkipSpace(obj, RefStringBody(obj, q + 1)) + 1)

DoneField == fieldPc = "done"

\* the key name in double quotes occurs inside a string literal that ends
\* before the member named key
QuotedKeyInEarlierString(obj, key) ==
    LET needle == "\"" \o key \o "\""
        at == Find(obj, needle, 0)
        kp == RefKeyPos(obj, SkipSpace(obj, 1), key)
    IN  /\ kp # NPos /\ at # NPos
        /\ \E r \in StringRanges(obj, 0) :
              r[1] <= at /\ at + Len(needle) <= r[2] /\ r[2] <= kp

\* what the called extractor makes of the value that starts at offset v
ValueAt(fn, obj, v) ==
    IF fn = "xtream.ExtractIntField" THEN ParseIntAt(obj, v)
    ELSE IF fn = "dispatcharr.ExtractIntField" THEN DispatcharrParseIntAt(obj, v)
    ELSE IF ~RefIs(obj, v, "\"") THEN [ok |-> FALSE, val |-> <<>>]
    ELSE IF fn = "xtream.ExtractStringField" THEN DecodeLoop(obj, v + 1, <<>>, FALSE)
    ELSE DispatcharrDecodeLoop(obj, v + 1, <<>>, FALSE)

\* C11: when the key name in double quotes occurs in an earlier string value
\* of the object, the integer and string extractors still return the value of
\* the member that actually has that key.
C11_EarlierQuotedKeyTextIgnored ==
    (/\ DoneField
     /\ fieldFn \in IntFns \cup StringFns
     /\ WellFormedObject(fieldObj)
     /\ QuotedKeyInEarlierString(fieldObj, fieldKey))
    => LET kp == RefKeyPos(fieldObj, SkipSpace(fieldObj, 1), fieldKey)
           e == ValueAt(fieldFn, fieldObj, RefValueStart(fieldObj, kp))
       IN  /\ fieldRet = e.ok
           /\ e.ok => fieldOut = e.val

\* texts with no digit at the value position
NoDigitTexts == {"abc", "", "-", "null", "x5"}

\* C12: a decimal number, optionally negative, gives the same value bare and
\* in double quotes; when no digit stands at the value position the call
\* fails and the caller's variable keeps its value.
C12_IntBareOrQuoted ==
    (DoneField /\ fieldFn \in IntFns /\ fieldKey = "id")
    => /\ \A v \in (-MaxIntValue)..MaxIntValue, q \in BOOLEAN, lead \in {"", " "} :
            fieldObj = IntObject(IntToString(v), q, lead)
            => (fieldRet /\ fieldOut = v)
       /\ \A q \in BOOLEAN, lead \in {"", " "} :
            /\ fieldObj = IntObject("007", q, lead) => (fieldRet /\ fieldOut = 7)
            /\ fieldObj = IntObject("-08", q, lead) => (fieldRet /\ fieldOut = -8)
       /\ \A t \in NoDigitTexts, q \in BOOLEAN, lead \in {"", " "} :
            fieldObj = IntObject(t, q, lead)
            => (~fieldRet /\ fieldOut = IntBefore)
       /\ \A lead \in {"", " "} :
            fieldObj = IntObject(" 5", TRUE, lead) => (~fieldRet /\ fieldOut = IntBefore)

C12_Witness ==
    /\ DoneField /\ fieldFn = "xtream.ExtractIntField" /\ fieldKey = "id"
    /\ fieldObj = IntObject("-12", TRUE, " ")
    /\ fieldRet /\ fieldOut = -12

\* U+FFFD in UTF-8
Replacement == <<239, 191, 189>>

\* escaped texts and the UTF-8 bytes of the code points they denote
UnicodeCases ==
    { <<"\\u0041", <<65>>>>,
      <<"\\u007F", <<127>>>>,
      <<"\\u0080", <<194, 128>>>>,
      <<"\\u00e9", <<195, 169>>>>,
      <<"\\u00E9", <<195, 169>>>>,
      <<"\\u07FF", <<223, 191>>>>,
      <<"\\u0800", <<224, 160, 128>>>>,
      <<"\\u20AC", <<226, 130, 172>>>>,
      <<"\\uD7FF", <<237, 159, 191>>>>,
      <<"\\uE000", <<238, 128, 128>>>>,
      <<"\\uFFFF", <<239, 191, 191>>>>,
      <<"\\uD800\\uDC00", <<240, 144, 128, 128>>>>,
      <<"\\uD83D\\uDE00", <<240, 159, 152, 128>>>>,
      <<"\\ud83d\\ude00", <<240, 159, 152, 128>>>>,
      <<"\\uDBFF\\uDFFF", <<244, 143, 191, 191>>>>,
      <<"x\\uD83D\\uDE00y", <<120, 240, 159, 152, 128, 121>>>>,
      <<"\\uD800", Replacement>>,
      <<"\\uDBFF", Replacement>>,
      <<"\\uDC00", Replacement>>,
      <<"\\uDE00", Replacement>>,
      <<"\\uD83Dx", Replacement \o <<120>>>>,
      <<"\\uD800\\u0041", Replacement \o <<65>>>>,
      <<"\\uD800\\uD800", Replacement \o Replacement>>,
      <<"\\uDFFF\\uD800", Replacement \o Replacement>> }

\* C13: ExtractStringField (xtream) decodes \uXXXX to the UTF-8 bytes of the
\* code point, a high surrogate followed by a low surrogate escape to the
\* one code point of the pair, and a surrogate without partner to U+FFFD.
C13_UnicodeEscapesDecoded ==
    (DoneField /\ fieldFn = "xtream.ExtractStringField" /\ fieldKey = "name")
    => \A e \in UnicodeCases, lead \in {"", " "} :
          fieldObj = StringObject(e[1], lead) => (fieldRet /\ fieldOut = e[2])

C13_Witness ==
    /\ DoneField /\ fieldFn = "xtream.ExtractStringField" /\ fieldKey = "name"
    /\ fieldObj = StringObject("x\\uD83D\\uDE00y", "")
    /\ fieldRet /\ fieldOut = <<120, 240, 159, 152, 128, 121>>

\* the simple escapes and the byte each denotes
SimpleEscapes ==
    { <<"\"", 34>>, <<"\\", 92>>, <<"/", 47>>, <<"b", 8>>, <<"f", 12>>,
      <<"n", 10>>, <<"r", 13>>, <<"t", 9>> }

\* C14: in both clients ExtractStringField decodes each of the escapes
\* \" \\ \/ \b \f \n \r \t to the one character it denotes.
C14_SimpleEscapesDecoded ==
    (DoneField /\ fieldFn \in StringFns /\ fieldKey = "name")
    => \A e \in SimpleEscapes, lead \in {"", " "} :
          fieldObj = StringObject("a\\" \o e[1] \o "b", lead)
          => (fieldRet /\ fieldOut = <<97, e[2], 98>>)

\* C15: ExtractBoolField succeeds exactly when the value is the token true
\* or false or the single character 1 or 0, with the matching result; any
\* other value (10, 01, trueish, ...) makes it fail.
C15_BoolTokensOnly ==
    (DoneField /\ fieldFn = BoolFn /\ fieldKey = "on")
    => \A t \in BoolTexts, lead \in {"", " "}, more \in BOOLEAN :
          fieldObj = BoolObject(t, lead, more)
          => /\ t \in {"true", "1"} => (fieldRet /\ fieldOut = TRUE)
             /\ t \in {"false", "0"} => (fieldRet /\ fieldOut = FALSE)
             /\ t \notin {"true", "1", "false", "0"} => ~fieldRet

\* C16: for a key whose value starts with '{' or '[', ExtractRawJsonField
\* returns the text from that bracket through its matching closing bracket,
\* also when brackets occur inside string literals of the nested value.
C16_RawSpanIsTheNestedValue ==
    (/\ DoneField /\ fieldFn = RawFn /\ fieldKey = "info"
     /\ WellFormedObject(fieldObj)
     /\ RefKeyPos(fieldObj, SkipSpace(fieldObj, 1), "info") = 1
     /\ At(fieldObj, RefValueStart(fieldObj, 1)) \in {"{", "["})
    => LET v == RefValueStart(fieldObj, 1)
       IN  /\ fieldRet
           /\ fieldOut = SubSeq(fieldObj, v + 1, RefValue(fieldObj, v))

(***************************************************************************)
(* Category and stream decoders: properties                                *)
(***************************************************************************)
\* the value of the top-level member named key of obj, read as an integer;
\* no value if obj has no such member or its value is no integer
MemberInt(obj, key) ==
    LET kp == RefKeyPos(obj, SkipSpace(obj, 1), key)
    IN  IF kp = NPos THEN [ok |-> FALSE, val |-> 0]
        ELSE ParseIntAt(obj, RefValueStart(obj, kp))

\* the same for a string value
MemberString(obj, key) ==
    LET kp == RefKeyPos(obj, SkipSpace(obj, 1), key)
    IN  IF kp = NPos \/ ~RefIs(obj, RefValueStart(obj, kp), "\"")
        THEN [ok |-> FALSE, val |-> <<>>]
        ELSE DecodeLoop(obj, RefValueStart(obj, kp) + 1, <<>>, FALSE)

OrElse(r, default) == IF r.ok THEN r.val ELSE default

\* the records an element is to give: one if its id member has a value, with
\* every other field from the element's own member of that name or at its
\* default
ExpectedRecords(caller, obj) ==
    IF caller = "xtream"
    THEN IF ~MemberInt(obj, "category_id").ok THEN <<>>
         ELSE <<[id |-> MemberInt(obj, "category_id").val,
                 name |-> OrElse(MemberString(obj, "category_name"), <<>>)]>>
    ELSE IF ~MemberInt(obj, "stream_id").ok THEN <<>>
         ELSE <<[id |-> MemberInt(obj, "stream_id").val,
                 categoryId |-> OrElse(MemberInt(obj, "category_id"), 0),
                 number |-> OrElse(MemberInt(obj, "num"), 0),
                 name |-> OrElse(MemberString(obj, "name"), <<>>),
                 icon |-> OrElse(MemberString(obj, "stream_icon"), <<>>)]>>

RECURSIVE ExpectedOut(_, _, _)
ExpectedOut(caller, text, elemSpans) ==
    IF elemSpans = <<>> THEN <<>>
    ELSE ExpectedRecords(caller, Slice(text, Head(elemSpans)[1], Head(elemSpans)[2]))
         \o ExpectedOut(caller, text, Tail(elemSpans))

\* C20: the decoders push one record for each array element whose id member
\* (category_id, resp. stream_id) has a value and none for the others; an
\* optional member that is missing or malformed leaves its field at the
\* default value.
C20_RecordIffIdAndDefaultsKept ==
    (/\ spc \in {"returned", "done"} /\ impl \in XtreamCallers
     /\ fetch.url /\ fetch.ok
     /\ WellFormedArray(json))
    => out = ExpectedOut(impl, json, RefArray(json).spans)

(***************************************************************************)
(* ParseXMLTV: channels sharing a join key or a name                       *)
(***************************************************************************)
\* positions of the declared channels whose join key is id
Declaring(id) ==
    {k \in 1..Len(docChannels) :
        /\ docChannels[k].id # ""
        /\ JoinKey(streamIdToName, streamNameToId,
                   docChannels[k].id, docChannels[k].displayName) = id}

\* C22: the ids of the returned ChannelEpg values are pairwise distinct, and
\* when several declared channels resolve to the same join key the one
\* ChannelEpg of that key carries the display name and the icon of the
\* channel declared last.
C22_OneChannelEpgPerKeyLastDeclaredWins ==
    (xpc = "done" /\ docKind = "tv")
    => /\ \A a, b \in channelEpgs : a.id = b.id => a = b
       /\ \A e \in channelEpgs :
             /\ Declaring(e.id) # {}
             /\ e.displayName = docChannels[Last(Declaring(e.id))].displayName
             /\ e.iconPath = docChannels[Last(Declaring(e.id))].icon

C22_Witness ==
    /\ xpc = "done" /\ xmlRet
    /\ Len(docChannels) = 2
    /\ docChannels[1].id # docChannels[2].id
    /\ docChannels[1].displayName # docChannels[2].displayName
    /\ docChannels[1].icon # docChannels[2].icon
    /\ \E e \in channelEpgs :
          /\ Declaring(e.id) = {1, 2}
          /\ e.displayName = docChannels[2].displayName
          /\ e.iconPath = docChannels[2].icon

First(S) == CHOOSE k \in S : \A j \in S : k <= j

\* C24: when several streams of the catalog have names equal ignoring case,
\* a channel matched by its display name gets the id of the first of them in
\* catalog order.
C24_FirstStreamOfNameWins ==
    (NameRuleTried /\ Cardinality(SameName(TRUE)) > 1)
    => mappedId = IntToString(streams[First(SameName(TRUE))].id)

(***************************************************************************)
(* HttpGet: properties                                                     *)
(***************************************************************************)
\* HttpGet has returned after the body read passed the cap
BodyOverCap == hpc = "done" /\ Len(httpBody) > MaxBodyBytes

\* C21: when the server's body is longer than the cap, every way of reading
\* it in chunks ends over the cap; HttpGet then returns ok = false, and the
\* caller returns a failure with no scan of the body, no record and no
\* XMLTV text taken from it.
C21_OverCapIsFetchFailure ==
    /\ (hpc = "done" /\ server.open /\ Len(server.body) > MaxBodyBytes) => BodyOverCap
    /\ BodyOverCap
       => /\ ~fetch.ok
          /\ spc \in {"start", "done"}
          /\ spans = <<>> /\ out = <<>> /\ xmltvData = ""
          /\ spc = "done" => ~result.ok

C21_Witness ==
    /\ BodyOverCap
    /\ impl = "xtream" /\ spc = "done"
    /\ server.protocol = "HTTP/1.1 200 OK"
    /\ Find(httpBody, "{\"category_id\":4}", 0) # NPos
    /\ ~result.ok /\ out = <<>>

(***************************************************************************)
(* FetchAllLiveStreams: properties                                         *)
(***************************************************************************)
RECURSIVE Gathered(_, _)
\* the out vectors of replies[from..], concatenated in call order
Gathered(rs, from) ==
    IF from > Len(rs) THEN <<>> ELSE rs[from].out \o Gathered(rs, from + 1)

\* C23: FetchAllLiveStreams is all-or-nothing.  While it runs and when it
\* returns a failure, both output vectors are empty, whatever they held
\* before and whatever has been fetched; when it returns success, categories
\* is the list FetchLiveCategories gave and streams is the bulk result, or,
\* when the bulk fetch failed, the per-category results concatenated in the
\* order of the categories, one fetch per category with that category's id.
C23_AllOrNothing ==
    /\ (apc \in {"bulk", "loop"} \/ (apc = "done" /\ ~allRes.ok))
       => categories = <<>> /\ allStreams = <<>>
    /\ (apc = "done" /\ allRes.ok)
       => /\ replies[1].ok /\ categories = replies[1].out
          /\ IF replies[2].ok
             THEN allStreams = replies[2].out /\ Len(replies) = 2
             ELSE /\ Len(replies) = 2 + Len(categories)
                  /\ \A k \in 1..Len(categories) :
                        /\ replies[2 + k].ok
                        /\ replies[2 + k].categoryId = categories[k].id
                  /\ allStreams = Gathered(replies, 3)
    /\ (apc = "done" /\ ~allRes.ok)
       => ~replies[Len(replies)].ok /\ allRes.details = replies[Len(replies)].details

\* the second per-category fetch fails after the first one gave streams
C23_Witness ==
    /\ apc = "done" /\ ~allRes.ok
    /\ Len(replies) = 4
    /\ Len(cats) = 2 /\ all # <<>>
    /\ categories = <<>> /\ allStreams = <<>>

(***************************************************************************)
(* dispatcharr Client: properties                                          *)
(***************************************************************************)
IsAuth(q) == q.endpoint = TokenEndpoint

\* the requests the last operation sent
NewRequests == SubSeq(wire, Len(lastOp.wireBefore) + 1, Len(wire))

\* the last operation failed to authenticate
AuthFailed == lastOp.op # "none" /\ m_accessToken = <<>>

\* C25: over any sequence of Client operations, every API request is sent
\* with the non-empty token the Client holds; an operation whose
\* authentication fails returns false, sends nothing but the authentication
\* request and leaves rules and recordings as they were; and an operation
\* entered with a token leaves that token in place and sends no
\* authentication request.
C25_TokenGuardsEveryRequest ==
    /\ \A k \in 1..Len(wire) : ~IsAuth(wire[k]) => wire[k].bearer # <<>>
    /\ \A k \in 1..Len(NewRequests) :
          ~IsAuth(NewRequests[k]) => NewRequests[k].bearer = m_accessToken
    /\ AuthFailed
       => /\ ~lastOp.ret
          /\ NewRequests = <<AuthRequest>>
          /\ outRules = lastOp.rulesBefore
          /\ outRecordings = lastOp.recordingsBefore
    /\ lastOp.tokenBefore # <<>>
       => /\ m_accessToken = lastOp.tokenBefore
          /\ \A k \in 1..Len(NewRequests) : ~IsAuth(NewRequests[k])

\* a second operation runs on the token the first one obtained
C25_Witness ==
    /\ nOps = 2
    /\ lastOp.op = "FetchRecordings" /\ lastOp.ret
    /\ lastOp.tokenBefore = <<116, 49>>
    /\ m_accessToken = <<116, 49>>
    /\ Len(wire) = 3
    /\ IsAuth(wire[1]) /\ ~IsAuth(wire[2]) /\ ~IsAuth(wire[3])
    /\ Len(outRecordings) = 1
    /\ outRecordings[1].id = 5
    /\ outRecordings[1].endTime = 1769162400
    /\ outRecordings[1].streamUrl = "http://dvr:8080/api/channels/recordings/5/file/"

====
